---- MODULE Spec2Model ----
(***************************************************************************)
(* Secure Entry worker (entry-history variant,                             *)
(* index_cloud_v6_PROD_120D_NO_REUSE.js): the submission write path, the   *)
(* detached sync to the external archive, the scheduled retry sweep, the   *)
(* retention cleanup and the D1 search.                                    *)
(*                                                                         *)
(* Text is a sequence of one-character strings, so that trimming, upper-   *)
(* casing and key normalisation are computed, not assumed.  An entry id    *)
(* (crypto.randomUUID()) is the number of the request that created it; the *)
(* R2 key of an entry's photo (prefix/date/id.jpg) is that same number.    *)
(* Every await of the source is a step of its own; other requests and      *)
(* background tasks interleave between the steps.                          *)
(***************************************************************************)
EXTENDS Integers, Sequences, FiniteSets, Bags, TLC

\* ------------------------------------------------------------------ bounds
\* request slots
MaxReqs == 3
\* last instant of the model clock
MaxTime == 4
\* the scope of SpecSync
SyncReqs == 1
SyncSweeps == 2
\* the scope of SpecSubmit
SubmitReqs == 3
\* the scope of SpecPurge
PurgeReqs == 1
PurgeSweeps == 2
\* the scope of SpecSearch
SearchReqs == 2
SearchTime == 2

\* ------------------------------------------------------------------- text
EMPTY == << >>
NULL == <<"null">>
Ws == {" "}
\* the characters of [A-Z0-9]
UpperAlnum ==
  {"A", "B", "C", "D", "E", "F", "G", "H", "I", "J", "K", "L", "M", "N", "O", "P",
   "Q", "R", "S", "T", "U", "V", "W", "X", "Y", "Z",
   "0", "1", "2", "3", "4", "5", "6", "7", "8", "9"}

\* toUpperCase, on the lower-case letters the model's inputs use
upperChar(c) ==
  CASE c = "k" -> "K" [] c = "z" -> "Z" [] c = "r" -> "R" [] c = "e" -> "E"
    [] c = "g" -> "G" [] c = "i" -> "I" [] c = "d" -> "D" [] c = "x" -> "X"
    [] c = "a" -> "A" [] c = "b" -> "B"
    [] OTHER -> c

RECURSIVE trimLeft(_)
trimLeft(s) ==
  IF s # EMPTY /\ Head(s) \in Ws THEN trimLeft(Tail(s)) ELSE s

RECURSIVE trimRight(_)
trimRight(s) ==
  IF s # EMPTY /\ s[Len(s)] \in Ws THEN trimRight(SubSeq(s, 1, Len(s) - 1)) ELSE s

\* toText: null/undefined become "", the rest is String(v).trim()
toText(v) == IF v = NULL THEN EMPTY ELSE trimRight(trimLeft(v))

toUpper(v) == LET t == toText(v) IN [i \in 1..Len(t) |-> upperChar(t[i])]

\* (mutant) the key without the upper-casing
normKeyNoUpper(v) == SelectSeq(toText(v), LAMBDA c : c \in UpperAlnum)

\* normKey: toUpper(v).replace(/[^A-Z0-9]/g, "")
normKey(v) == SelectSeq(toUpper(v), LAMBDA c : c \in UpperAlnum)

\* datetime(created_at): SQLite renders YYYY-MM-DD HH:MM:SS, dropping the
\* milliseconds of the ISO string; the model clock has two instants a second.
datetime(t) == t \div 2

\* retentionDays(env): env.RETENTION_DAYS; one model day is one model second.
retentionDays == 1

\* ------------------------------------------------------------------ state
VARIABLES
  env,       \* [sync |-> GAS_SYNC_URL and SYNC_TOKEN are set,
             \*  version |-> "v6" (index_cloud_v6_PROD_120D_NO_REUSE.js) or
             \*              "v4" (index_cloud_clean_v4_perf.js, its syncToGoogle),
             \*  store |-> "up" or "flaky" while an attempt's status is written,
             \*  missing |-> the optional column groups table entries lacks,
             \*  viewToken |-> IMAGE_VIEW_TOKEN, "" if not set]
  now,       \* the clock (Date.now / SQLite 'now')
  entries,   \* D1 table entries: id -> row
  bucket,    \* R2: the keys that hold an object
  drive,     \* the external archive: the file ids it holds
  reqs,      \* POST /submit requests: slot -> position and locals
  tasks,     \* detached syncToGoogle calls in flight (a bag)
  sweeps,    \* scheduled() invocations so far
  cleanups,  \* cleanupOld calls in flight (a bag)
  dels,      \* DELETE_DRIVE requests in flight (a bag)
  srch,      \* the d1Search call in progress
  cache,     \* caches.default: the cached /search answers, by query
  rejected,  \* the entries a syncToGoogle promise of which rejected
  sent,      \* the answer to the last GET request (search, image)
  img,       \* the GET /image request in progress
  adb,       \* worker.js: D1 tables records_latest, key_aliases, photos
  ajobs      \* worker.js: the submissions and the purge in progress

vars ==
  <<env, now, entries, bucket, drive, reqs, tasks, sweeps, cleanups, dels, srch,
    cache, rejected, sent, img, adb, ajobs>>

Ids == 1..MaxReqs
NoKey == 0

\* crypto.randomUUID(): fresh per request
uuid(r) == <<"u", ToString(r)>>
\* the file id / url the archive gives the photo of entry id
FileOf(id) == <<"F", ToString(id)>>
UrlOf(id) == <<"U", ToString(id)>>

\* imageUrl.startsWith("data:image/")
startsWithDataImage(u) == u \in {"data:image/png;base64,QUJD", "data:image/png;base64,"}
\* dataUrlToBytes: /^data:([^;]+);base64,(.+)$/ must match, else it throws
dataUrlOk(u) == u = "data:image/png;base64,QUJD"

NoResp == [status |-> 0]
IdleReq == [pc |-> "idle", txn |-> EMPTY, resp |-> NoResp]
NoRow == [id |-> 0]
NoResult == [exist |-> FALSE, pending |-> TRUE]
IdleSearch ==
  [pc |-> "idle", field |-> EMPTY, value |-> EMPTY, v |-> EMPTY, order |-> << >>,
   anyRow |-> NoRow, queried |-> << >>, result |-> NoResult, hit |-> FALSE]
\* no GET request answered yet; a Response; an exception no handler caught
NoSent == [route |-> "none", kind |-> "none", status |-> 0, body |-> NoResult]
Sent(route, status, body) ==
  [route |-> route, kind |-> "response", status |-> status, body |-> body]
Uncaught(route) == [route |-> route, kind |-> "exception", status |-> 0, body |-> NoResult]
IdleImage == [pc |-> "idle", id |-> 0, key |-> NoKey]
\* worker.js: the tables records_latest, key_aliases, photos and visits_log
\* empty, and no file in the archive
EmptyDb ==
  [records |-> << >>, aliases |-> << >>, photos |-> << >>, visits |-> {}, files |-> {}]
\* worker.js: no time (NULL), no photo, no answer of the archive
NoTime == -1
NoPhoto == 0
NoARes == [net |-> FALSE, status |-> 0, data |-> "none"]
NoExisting == [createdAt |-> NoTime, photoId |-> NoPhoto]
\* worker.js: a POST /api/submit not yet received, and the purge not running
IdleSub ==
  [pc |-> "idle", docNo |-> EMPTY, regNo |-> EMPTY, photo |-> FALSE, primaryKey |-> NULL,
   ts |-> 0, tries |-> << >>, cand |-> NULL, uploaded |-> NoPhoto,
   existing |-> NoExisting, photoUpdatedAt |-> NoTime, items |-> << >>,
   resp |-> NoSent]
IdlePurge ==
  [pc |-> "idle", n |-> 0, last |-> "none", ts |-> 0, rows |-> {},
   row |-> [photoId |-> NoPhoto, primaryKey |-> NULL], res |-> NoARes]
NoJobs == [subs |-> [r \in Ids |-> IdleSub], purge |-> IdlePurge]

InitEnv(Envs) ==
  /\ env \in Envs
  /\ now = 0
  /\ entries = << >>
  /\ bucket = {}
  /\ drive = {}
  /\ reqs = [r \in Ids |-> IdleReq]
  /\ tasks = EmptyBag
  /\ sweeps = 0
  /\ cleanups = EmptyBag
  /\ dels = EmptyBag
  /\ srch = IdleSearch
  /\ cache = << >>
  /\ rejected = {}
  /\ sent = NoSent
  /\ img = IdleImage
  /\ adb = EmptyDb
  /\ ajobs = NoJobs

\* env.store: whether the D1 statements of syncToGoogle's status update can fail
Init == InitEnv([sync : BOOLEAN, version : {"v6"}, store : {"flaky"}, missing : {{}},
           viewToken : {"s"}])

\* ---------------------------------------------------------- POST /submit
\* (mutant) the new row carries the link of an entry of the same subject
NewRowInheritsLink(q) ==
  LET same == {i \in DOMAIN entries :
                 entries[i].id_norm = normKey(toUpper(q.data.mykadPassport))}
      url == IF same = {} THEN EMPTY ELSE entries[CHOOSE i \in same : TRUE].drive_url
  IN  [ created_at |-> q.created_at,
        client_txn_id |-> q.txn,
        name_passport |-> toUpper(q.data.namePassport),
        mykad_passport |-> toUpper(q.data.mykadPassport),
        regnum |-> toUpper(q.data.regnum),
        reg_norm |-> normKey(toUpper(q.data.regnum)),
        id_norm |-> normKey(toUpper(q.data.mykadPassport)),
        image_key |-> q.imageKey,
        drive_file_id |-> EMPTY,
        drive_url |-> url,
        sync_status |-> "PENDING",
        sync_attempts |-> 0,
        sync_error |-> "" ]

\* The row the handler inserts.
NewRow(q) ==
  [ created_at |-> q.created_at,
    client_txn_id |-> q.txn,
    name_passport |-> toUpper(q.data.namePassport),
    mykad_passport |-> toUpper(q.data.mykadPassport),
    regnum |-> toUpper(q.data.regnum),
    reg_norm |-> normKey(toUpper(q.data.regnum)),
    id_norm |-> normKey(toUpper(q.data.mykadPassport)),
    image_key |-> q.imageKey,
    drive_file_id |-> EMPTY,
    drive_url |-> EMPTY,
    sync_status |-> "PENDING",
    sync_attempts |-> 0,
    sync_error |-> "" ]

Finish(r, txn, resp) ==
  reqs' = [reqs EXCEPT ![r] = [pc |-> "done", txn |-> txn, resp |-> resp]]

\* {success:false, message: err.message}, 500; {success:false, message}, 400
Resp500(message) == [status |-> 500, success |-> FALSE, message |-> message]
Resp400 == [status |-> 400, success |-> FALSE, message |-> "Invalid imageUrl"]
StoreError == "store unavailable"
UniqueError == "UNIQUE constraint failed: entries.client_txn_id"

\* request.json(), the clientTxnId default, then the duplicate SELECT and, with
\* no duplicate, the synchronous code up to the first await after it.
SubmitDedup(r, Inputs) ==
  /\ reqs[r].pc = "idle"
  /\ \E data \in Inputs, dbOk \in BOOLEAN :
       LET t0 == toText(data.clientTxnId)
           txn == IF t0 = EMPTY THEN uuid(r) ELSE t0
           dup == {i \in DOMAIN entries : entries[i].client_txn_id = txn}
           imageUrl == data.imageUrl
       IN  IF ~dbOk THEN Finish(r, txn, Resp500(StoreError))
           ELSE IF dup # {} THEN
             \E i \in dup :
               Finish(r, txn, [status |-> 200, success |-> TRUE, id |-> i,
                               duplicate |-> TRUE,
                               syncStatus |-> entries[i].sync_status])
           ELSE IF imageUrl # "" /\ ~startsWithDataImage(imageUrl) THEN
             Finish(r, txn, Resp400)
           ELSE IF imageUrl # "" /\ ~dataUrlOk(imageUrl) THEN
             Finish(r, txn, Resp500("Invalid image data URL"))
           ELSE
             reqs' = [reqs EXCEPT ![r] =
                        [pc |-> IF imageUrl # "" THEN "put" ELSE "insert",
                         txn |-> txn, resp |-> NoResp, data |-> data,
                         created_at |-> now,
                         imageKey |-> IF imageUrl # "" THEN r ELSE NoKey,
                         r2PutOk |-> FALSE, err |-> ""]]
  /\ UNCHANGED <<env, now, entries, bucket, drive, tasks, sweeps, cleanups, dels, srch,
                 cache, rejected, sent, img, adb, ajobs>>

\* await env.BUCKET.put(imageKey, bytes, ...)
SubmitPut(r) ==
  /\ reqs[r].pc = "put"
  /\ \E putOk \in BOOLEAN :
       IF putOk
       THEN /\ bucket' = bucket \cup {r}
            /\ reqs' = [reqs EXCEPT ![r].pc = "insert", ![r].r2PutOk = TRUE]
       ELSE /\ bucket' = bucket
            /\ Finish(r, reqs[r].txn, Resp500(StoreError))
  /\ UNCHANGED <<env, now, entries, drive, tasks, sweeps, cleanups, dels, srch,
                 cache, rejected, sent, img, adb, ajobs>>

\* the record handed to syncToGoogle; the call runs to its first await
NoSyncResp == [net |-> "none"]
SyncTask(id, imageKey) ==
  [id |-> id, image_key |-> imageKey, pc |-> "inc", resp |-> NoSyncResp]
Launch(b, id, imageKey) ==
  IF env.sync THEN b (+) SetToBag({SyncTask(id, imageKey)}) ELSE b

\* (mutant) the table without the UNIQUE constraint on client_txn_id
InsertOkNoUnique(id, row) == id \notin DOMAIN entries

\* INSERT INTO entries: id is the primary key, client_txn_id is UNIQUE
InsertOk(id, row) ==
  /\ id \notin DOMAIN entries
  /\ \A i \in DOMAIN entries : entries[i].client_txn_id # row.client_txn_id

\* the optional column groups the full INSERT names: reg_norm, id_norm and
\* drive_file_id, drive_url
FullColumns == {"norm", "drive"}
\* The store's error for an INSERT naming a column the table lacks, "" if it
\* lacks none of those named.  SQLite reports the first such column of the
\* column list, for an INSERT in the words "table T has no column named C"
\* ("no such column: C" is its message for a column of an expression).
insertError(cols) ==
  IF "norm" \in cols \cap env.missing
  THEN "table entries has no column named reg_norm"
  ELSE IF "drive" \in cols \cap env.missing
  THEN "table entries has no column named drive_file_id"
  ELSE ""
\* /no such column: (drive_url|drive_file_id)/i.test(msg)
noSuchDrive(msg) ==
  msg \in {"no such column: drive_url", "no such column: drive_file_id"}
\* /no such column: (reg_norm|id_norm)/i.test(msg)
noSuchNorm(msg) == msg \in {"no such column: reg_norm", "no such column: id_norm"}
\* The tolerant insert: the full statement, and on its error the reduced
\* statement the message selects, or the error thrown again.  cols are the
\* optional groups of the statement that decided, err its error.
tolerantInsert ==
  LET e1 == insertError(FullColumns)
  IN  IF e1 = "" THEN [cols |-> FullColumns, err |-> ""]
      ELSE IF noSuchDrive(e1) THEN [cols |-> {"norm"}, err |-> insertError({"norm"})]
      ELSE IF noSuchNorm(e1) THEN [cols |-> {}, err |-> insertError({})]
      ELSE [cols |-> FullColumns, err |-> e1]
\* the row as a statement naming these optional groups stores it
Stored(row, cols) ==
  [row EXCEPT !.reg_norm = IF "norm" \in cols THEN @ ELSE NULL,
              !.id_norm = IF "norm" \in cols THEN @ ELSE NULL,
              !.drive_file_id = IF "drive" \in cols THEN @ ELSE NULL,
              !.drive_url = IF "drive" \in cols THEN @ ELSE NULL]

\* (mutant) the request waits for the sync before it answers
SubmitInsertAwaitsSync(r) ==
  /\ reqs[r].pc = "insert"
  /\ InsertOk(r, NewRow(reqs[r]))
  /\ entries' = (r :> NewRow(reqs[r])) @@ entries
  /\ tasks' = Launch(tasks, r, reqs[r].imageKey)
  /\ reqs' = [reqs EXCEPT ![r].pc = "sync"]
  /\ UNCHANGED <<env, now, bucket, drive, sweeps, cleanups, dels, srch,
                 cache, rejected, sent, img, adb, ajobs>>

\* await dbRun(INSERT ...); on success the sync is detached and the request
\* answered; on failure the catch block runs.  The reduced statements of the
\* tolerant insert run in the same step.
SubmitInsert(r) ==
  /\ reqs[r].pc = "insert"
  /\ \E dbOk \in BOOLEAN :
       LET q == reqs[r]
           row == NewRow(q)
           stmt == tolerantInsert
       IN  IF dbOk /\ stmt.err = "" /\ InsertOk(r, row)
           THEN /\ entries' = (r :> Stored(row, stmt.cols)) @@ entries
                /\ tasks' = Launch(tasks, r, q.imageKey)
                /\ Finish(r, q.txn, [status |-> 200, success |-> TRUE, id |-> r,
                                     duplicate |-> FALSE, syncStatus |-> "PENDING"])
           ELSE LET e1 == IF ~dbOk THEN StoreError
                          ELSE IF stmt.err # "" THEN stmt.err ELSE UniqueError
                IN  /\ UNCHANGED <<entries, tasks>>
                    /\ IF q.r2PutOk /\ q.imageKey # NoKey
                       THEN reqs' = [reqs EXCEPT ![r].pc = "undo", ![r].err = e1]
                       ELSE Finish(r, q.txn, Resp500(e1))
  /\ UNCHANGED <<env, now, bucket, drive, sweeps, cleanups, dels, srch,
                 cache, rejected, sent, img, adb, ajobs>>

\* (mutant) the catch block without the compensating delete
SubmitUndoNoDelete(r) ==
  /\ reqs[r].pc = "undo"
  /\ Finish(r, reqs[r].txn, Resp500(reqs[r].err))
  /\ UNCHANGED <<env, now, entries, bucket, drive, tasks, sweeps, cleanups, dels,
                 srch, cache, rejected, sent, img, adb, ajobs>>

\* catch: try { await env.BUCKET.delete(imageKey) } catch (_) {} ; throw e
SubmitUndo(r) ==
  /\ reqs[r].pc = "undo"
  /\ \E delOk \in BOOLEAN :
       bucket' = IF delOk THEN bucket \ {reqs[r].imageKey} ELSE bucket
  /\ Finish(r, reqs[r].txn, Resp500(reqs[r].err))
  /\ UNCHANGED <<env, now, entries, drive, tasks, sweeps, cleanups, dels, srch,
                 cache, rejected, sent, img, adb, ajobs>>

\* ----------------------------------------------------------- syncToGoogle
Add(b, x) == b (+) SetToBag({x})
Remove(b, x) == b (-) SetToBag({x})

\* What fetch() and res.text() give: the call throws, or a status and a body.
\* A body is empty, not JSON, or JSON: null, a scalar, or an object whose
\* success is true, false, the string "true", or absent.
NetError == [net |-> "error"]
Http(status, body) == [net |-> "ok", status |-> status, body |-> body]
Obj(success, fileId, url) ==
  [kind |-> "object", success |-> success, driveFileId |-> fileId, driveUrl |-> url]
BodyEmpty == [text |-> "empty"]
BodyGarbage == [text |-> "garbage"]
BodyJson(js) == [text |-> "json", js |-> js]

\* res.ok
resOk(resp) == resp.status >= 200 /\ resp.status <= 299

\* try { js = JSON.parse(text || "{}") } catch (e) { js = null }
jsonParse(body) ==
  IF body.text = "empty" THEN Obj("absent", NULL, NULL)
  ELSE IF body.text = "garbage" THEN [kind |-> "null"]
  ELSE body.js

\* (mutant) success is tested for truthiness, not for being exactly true
syncSucceededTruthy(resp) ==
  /\ resp.net = "ok"
  /\ resOk(resp)
  /\ LET js == jsonParse(resp.body)
     IN  js.kind = "object" /\ js.success \in {"true", "true-string"}

\* the attempt goes on to the DONE update: no throw before it
syncSucceeded(resp) ==
  /\ resp.net = "ok"
  /\ resOk(resp)
  /\ LET js == jsonParse(resp.body)
     IN  js.kind = "object" /\ js.success = "true"

\* the message of the error thrown (its text is cut to 600 characters)
syncErrorOf(resp) ==
  IF resp.net = "store threw" THEN StoreError
  ELSE IF resp.net # "ok" THEN "fetch failed"
  ELSE IF ~resOk(resp) THEN "GAS sync http failed"
  ELSE "GAS sync app failed"

\* (mutant) the returned value is stored as it is
coalesceOverwrite(param, column) == param

\* COALESCE(NULLIF(?, ''), column)
coalesceNullif(param, column) == IF param = EMPTY THEN column ELSE param

\* UPDATE entries SET sync_status='DONE', sync_error='', drive_file_id = ...,
\* drive_url = ... WHERE id = ?
\* (mutant) the success update stores the link and leaves the status
updateDoneLinksOnly(row, driveFileId, driveUrl) ==
  [row EXCEPT !.drive_file_id = coalesceNullif(driveFileId, @),
              !.drive_url = coalesceNullif(driveUrl, @)]

updateDone(row, driveFileId, driveUrl) ==
  [row EXCEPT !.sync_status = "DONE", !.sync_error = "",
              !.drive_file_id = coalesceNullif(driveFileId, @),
              !.drive_url = coalesceNullif(driveUrl, @)]

\* the fallback: UPDATE entries SET sync_status='DONE', sync_error='' WHERE id = ?
updateDoneOnly(row) == [row EXCEPT !.sync_status = "DONE", !.sync_error = ""]

\* UPDATE entries SET sync_status = 'FAILED', sync_error = ? WHERE id = ?
updateFailed(row, msg) == [row EXCEPT !.sync_status = "FAILED", !.sync_error = msg]

\* UPDATE entries SET sync_attempts = sync_attempts + 1 WHERE id = ?
updateAttempts(row) == [row EXCEPT !.sync_attempts = @ + 1]

\* an UPDATE ... WHERE id = ? touches the row if it is still there
\* (mutant) the UPDATE without its WHERE id = ?
UpdateRowNoWhere(id, row) == [i \in DOMAIN entries |-> row]

UpdateRow(id, row) ==
  IF id \in DOMAIN entries THEN [entries EXCEPT ![id] = row] ELSE entries

\* the statement threw before the call: nothing was fetched (v4)
DbThrew == [net |-> "store threw"]

\* v6: try { await dbRun(UPDATE sync_attempts) } catch (_) {} ; then fetch is
\* issued.  v4: the same statement without the inner try: when it throws, the
\* outer catch runs and nothing is fetched.
SyncAttempt(t) ==
  /\ BagIn(t, tasks) /\ t.pc = "inc"
  /\ \E dbOk \in BOOLEAN :
       /\ entries' = IF dbOk THEN UpdateRow(t.id, updateAttempts(entries[t.id])) ELSE entries
       /\ tasks' = Add(Remove(tasks, t),
                       IF dbOk \/ env.version = "v6"
                       THEN [t EXCEPT !.pc = "fetch"]
                       ELSE [t EXCEPT !.pc = "resp", !.resp = DbThrew])
  /\ UNCHANGED <<env, now, bucket, drive, reqs, sweeps, cleanups, dels, srch,
                 cache, rejected, sent, img, adb, ajobs>>

\* the archive stores a file when it answers success with a file id
Uploaded(resp) ==
  IF syncSucceeded(resp) /\ toText(jsonParse(resp.body).driveFileId) # EMPTY
  THEN {toText(jsonParse(resp.body).driveFileId)} ELSE {}

\* await fetch(env.GAS_SYNC_URL, ...) and await res.text()
SyncResponse(t, Resps) ==
  /\ BagIn(t, tasks) /\ t.pc = "fetch"
  /\ \E resp \in Resps :
       /\ tasks' = Add(Remove(tasks, t), [t EXCEPT !.pc = "resp", !.resp = resp])
       /\ drive' = drive \cup Uploaded(resp)
  /\ UNCHANGED <<env, now, entries, bucket, reqs, sweeps, cleanups, dels, srch,
                 cache, rejected, sent, img, adb, ajobs>>

\* the outcomes of a status-update statement: a store that is up accepts it
StoreOutcomes == IF env.store = "up" THEN {TRUE} ELSE BOOLEAN

\* v4: the catch block's await dbRun(FAILED) is not inside a try: when that
\* statement throws the promise of syncToGoogle rejects.  It runs after a
\* failure (dbOk1 is its outcome) or after the DONE statement threw (dbOk2 is).
\* v6: the statement is inside try { } catch (_) { }.
catchThrows(resp, dbOk1, dbOk2) ==
  /\ env.version = "v4"
  /\ IF syncSucceeded(resp) THEN ~dbOk1 /\ ~dbOk2 ELSE ~dbOk1

\* The status update that ends the attempt.
\* v6: DONE with the drive fields merged (or, that statement failing, DONE
\* alone), or FAILED with the message; a failing statement is swallowed.
\* v4: DONE, and when that statement throws the catch block writes FAILED; or
\* FAILED with the message; a throw of the FAILED statement is not caught.
SyncUpdate(t) ==
  /\ BagIn(t, tasks) /\ t.pc = "resp"
  /\ \E dbOk1 \in StoreOutcomes, dbOk2 \in StoreOutcomes :
       /\ IF syncSucceeded(t.resp)
          THEN LET js == jsonParse(t.resp.body)
                   driveFileId == toText(js.driveFileId)
                   driveUrl == toText(js.driveUrl)
               IN  entries' =
                     IF env.version = "v6"
                     THEN IF dbOk1 /\ "drive" \notin env.missing
                          THEN UpdateRow(t.id, updateDone(entries[t.id], driveFileId, driveUrl))
                          ELSE IF dbOk2 THEN UpdateRow(t.id, updateDoneOnly(entries[t.id]))
                          ELSE entries
                     ELSE IF dbOk1 THEN UpdateRow(t.id, updateDoneOnly(entries[t.id]))
                          ELSE IF dbOk2
                          THEN UpdateRow(t.id, updateFailed(entries[t.id], StoreError))
                          ELSE entries
          ELSE entries' =
                 IF dbOk1
                 THEN UpdateRow(t.id, updateFailed(entries[t.id], syncErrorOf(t.resp)))
                 ELSE entries
       /\ rejected' = IF catchThrows(t.resp, dbOk1, dbOk2)
                      THEN rejected \cup {t.id} ELSE rejected
  /\ tasks' = Remove(tasks, t)
  /\ UNCHANGED <<env, now, bucket, drive, reqs, sweeps, cleanups, dels, srch, cache,
                 sent, img, adb, ajobs>>

\* -------------------------------------------------------------- scheduled
\* ORDER BY datetime(created_at) ASC LIMIT n over the rows of S: any n of them
\* with none left out that is older, to the second, than one taken
OldestFirst(S, n) ==
  {B \in SUBSET S :
     /\ Cardinality(B) = IF Cardinality(S) < n THEN Cardinality(S) ELSE n
     /\ \A x \in B, y \in S \ B :
          datetime(entries[x].created_at) <= datetime(entries[y].created_at)}

\* (mutant) the retry selection without the attempt cap
RetryableNoCap ==
  {i \in DOMAIN entries : entries[i].sync_status \in {"PENDING", "FAILED"}}

\* WHERE sync_status IN ('PENDING','FAILED') AND sync_attempts < 5
Retryable ==
  {i \in DOMAIN entries :
     /\ entries[i].sync_status \in {"PENDING", "FAILED"}
     /\ entries[i].sync_attempts < 5}

NewCleanup == [pc |-> "select", list |-> {}, keys |-> {}]

\* scheduled(): the retry SELECT, a detached syncToGoogle per row, then (v6)
\* the detached cleanupOld
Scheduled(maxSweeps) ==
  /\ sweeps < maxSweeps
  /\ sweeps' = sweeps + 1
  /\ \E dbOk \in BOOLEAN :
       IF dbOk
       THEN \E list \in OldestFirst(Retryable, 20) :
              /\ tasks' = IF env.sync
                          THEN tasks (+) SetToBag({SyncTask(i, entries[i].image_key) : i \in list})
                          ELSE tasks
              /\ cleanups' = IF env.version = "v6" THEN Add(cleanups, NewCleanup)
                             ELSE cleanups
       ELSE UNCHANGED <<tasks, cleanups>>
  /\ UNCHANGED <<env, now, entries, bucket, drive, reqs, dels, srch,
                 cache, rejected, sent, img, adb, ajobs>>

\* ------------------------------------------------------------- cleanupOld
\* WHERE datetime(created_at) < datetime('now', '-N days')
Expired ==
  {i \in DOMAIN entries :
     datetime(entries[i].created_at) < datetime(now) - retentionDays}

\* the orders ORDER BY datetime(created_at) ASC may return the rows of B in
Orders(B) ==
  {o \in [1..Cardinality(B) -> B] :
     /\ \A i, j \in DOMAIN o : i < j =>
          /\ o[i] # o[j]
          /\ datetime(entries[o[i]].created_at) <= datetime(entries[o[j]].created_at)}

Range(q) == {q[i] : i \in DOMAIN q}

\* driveIds.slice(i, i + chunkSize) for i = 0, 50, 100, ...
RECURSIVE Chunks(_)
Chunks(ids) ==
  IF ids = << >> THEN {}
  ELSE IF Len(ids) <= 50 THEN {ids}
  ELSE {SubSeq(ids, 1, 50)} \cup Chunks(SubSeq(ids, 51, Len(ids)))

\* the DELETE_DRIVE requests cleanupOld fires and does not wait for
DriveRequests(list) ==
  LET driveIds == SelectSeq([i \in DOMAIN list |-> toText(list[i].drive_file_id)],
                            LAMBDA x : x # EMPTY)
  IN  IF driveIds # << >> /\ env.sync
      THEN SetToBag({[fileIds |-> c] : c \in Chunks(driveIds)})
      ELSE EmptyBag

\* await dbAll(SELECT id, image_key, drive_file_id ... LIMIT 200)
CleanupSelect(c) ==
  /\ BagIn(c, cleanups) /\ c.pc = "select"
  /\ \E dbOk \in BOOLEAN :
       IF dbOk /\ Expired # {}
       THEN \E B \in OldestFirst(Expired, 200) : \E o \in Orders(B) :
              cleanups' = Add(Remove(cleanups, c),
                [pc |-> "delete", keys |-> << >>,
                 list |-> [i \in DOMAIN o |->
                            [id |-> o[i], image_key |-> entries[o[i]].image_key,
                             drive_file_id |-> entries[o[i]].drive_file_id]]])
       ELSE cleanups' = Remove(cleanups, c)
  /\ UNCHANGED <<env, now, entries, bucket, drive, reqs, tasks, sweeps, dels, srch,
                 cache, rejected, sent, img, adb, ajobs>>

\* (mutant) cleanupOld deleting the objects while the rows stay
CleanupDeleteKeepsRows(c) ==
  /\ BagIn(c, cleanups) /\ c.pc = "delete"
  /\ LET r2Keys == SelectSeq([i \in DOMAIN c.list |-> c.list[i].image_key],
                             LAMBDA k : k # NoKey)
     IN  IF r2Keys # << >>
         THEN cleanups' = Add(Remove(cleanups, c), [c EXCEPT !.pc = "r2", !.keys = r2Keys])
         ELSE cleanups' = Remove(cleanups, c)
  /\ UNCHANGED <<env, now, entries, bucket, drive, reqs, tasks, sweeps, dels, srch,
                 cache, rejected, sent, img, adb, ajobs>>

\* await dbRun(DELETE FROM entries WHERE id IN (...)); with no R2 key to
\* delete the Drive requests are fired at once
CleanupDelete(c) ==
  /\ BagIn(c, cleanups) /\ c.pc = "delete"
  /\ \E dbOk \in BOOLEAN :
       LET ids == {c.list[i].id : i \in DOMAIN c.list}
           r2Keys == SelectSeq([i \in DOMAIN c.list |-> c.list[i].image_key],
                               LAMBDA k : k # NoKey)
       IN  IF ~dbOk
           THEN /\ cleanups' = Remove(cleanups, c)
                /\ UNCHANGED <<entries, dels>>
           ELSE /\ entries' = [i \in DOMAIN entries \ ids |-> entries[i]]
                /\ IF r2Keys # << >>
                   THEN /\ cleanups' = Add(Remove(cleanups, c),
                                           [c EXCEPT !.pc = "r2", !.keys = r2Keys])
                        /\ dels' = dels
                   ELSE /\ cleanups' = Remove(cleanups, c)
                        /\ dels' = dels (+) DriveRequests(c.list)
  /\ UNCHANGED <<env, now, bucket, drive, reqs, tasks, sweeps, srch,
                 cache, rejected, sent, img, adb, ajobs>>

\* try { await env.BUCKET.delete(k) } catch (_) {}, one key of the loop; after
\* the last key the Drive requests are fired
CleanupR2(c) ==
  /\ BagIn(c, cleanups) /\ c.pc = "r2"
  /\ \E delOk \in BOOLEAN :
       bucket' = IF delOk THEN bucket \ {Head(c.keys)} ELSE bucket
  /\ IF Tail(c.keys) # << >>
     THEN /\ cleanups' = Add(Remove(cleanups, c), [c EXCEPT !.keys = Tail(@)])
          /\ dels' = dels
     ELSE /\ cleanups' = Remove(cleanups, c)
          /\ dels' = dels (+) DriveRequests(c.list)
  /\ UNCHANGED <<env, now, entries, drive, reqs, tasks, sweeps, srch,
                 cache, rejected, sent, img, adb, ajobs>>

\* fetch(url, {action: "DELETE_DRIVE", fileIds}).catch(() => {}): the archive
\* deletes the files or the request fails; the worker reads neither outcome
DriveDelete(d) ==
  /\ BagIn(d, dels)
  /\ \E deleted \in BOOLEAN :
       drive' = IF deleted THEN drive \ Range(d.fileIds) ELSE drive
  /\ dels' = Remove(dels, d)
  /\ UNCHANGED <<env, now, entries, bucket, reqs, tasks, sweeps, cleanups, srch,
                 cache, rejected, sent, img, adb, ajobs>>

\* ------------------------------------------------------------------ clock
Tick(maxTime) ==
  /\ now < maxTime
  /\ now' = now + 1
  /\ UNCHANGED <<env, entries, bucket, drive, reqs, tasks, sweeps, cleanups, dels, srch,
                 cache, rejected, sent, img, adb, ajobs>>

\* --------------------------------------------------------------- d1Search
REGNUM == <<"R", "E", "G", "N", "U", "M">>
REG == <<"R", "E", "G">>
CAR == <<"C", "A", "R">>
PLATE == <<"P", "L", "A", "T", "E">>
MYKADPASSPORT == <<"M", "Y", "K", "A", "D", "P", "A", "S", "S", "P", "O", "R", "T">>
MYKAD == <<"M", "Y", "K", "A", "D">>
PASSPORT == <<"P", "A", "S", "S", "P", "O", "R", "T">>
ID == <<"I", "D">>

\* (mutant) an unknown hint tries the identity key first
tryOrderIdFirst(f) ==
  IF f \in {REGNUM, REG, CAR, PLATE} THEN <<"reg_norm">>
  ELSE IF f \in {MYKADPASSPORT, MYKAD, PASSPORT, ID} THEN <<"id_norm">>
  ELSE <<"id_norm", "reg_norm">>

\* the columns d1Search tries, in order, for field hint f (normalised)
tryOrder(f) ==
  IF f \in {REGNUM, REG, CAR, PLATE} THEN <<"reg_norm">>
  ELSE IF f \in {MYKADPASSPORT, MYKAD, PASSPORT, ID} THEN <<"id_norm">>
  ELSE <<"reg_norm", "id_norm">>

col(row, c) == IF c = "reg_norm" THEN row.reg_norm ELSE row.id_norm

\* WHERE <col> = ?
Matching(c, v) == {i \in DOMAIN entries : col(entries[i], c) = v}

\* (mutant) the proof query without its drive_url filter
WithProofUnfiltered(c, v) == Matching(c, v)

\* ... AND drive_url IS NOT NULL AND TRIM(drive_url) <> ''
WithProof(c, v) ==
  {i \in Matching(c, v) :
     /\ entries[i].drive_url # NULL
     /\ trimRight(trimLeft(entries[i].drive_url)) # EMPTY}

\* ORDER BY datetime(created_at) DESC LIMIT 1: a row of S none is newer than,
\* to the second
Latest(S) ==
  {i \in S : \A j \in S :
     datetime(entries[j].created_at) <= datetime(entries[i].created_at)}

ExistFalse == [exist |-> FALSE]
ExpiredShape == [exist |-> TRUE, hasHyperlink |-> FALSE, data |-> << >>]
ActiveShape(anyRow, driveUrl) ==
  [exist |-> TRUE, hasHyperlink |-> TRUE,
   data |-> [namePassport |-> anyRow.name_passport,
             mykadPassport |-> anyRow.mykad_passport,
             regnum |-> anyRow.regnum,
             photoLink |-> toText(driveUrl)]]

\* d1Search(env, field, value) up to its first query
SearchStart(Fields, Values) ==
  /\ srch.pc = "idle"
  /\ \E field \in Fields, value \in Values :
       LET f == normKey(field)
           v == normKey(value)
       IN  srch' = IF v = EMPTY
                   THEN [IdleSearch EXCEPT !.pc = "done", !.field = field,
                                           !.value = value, !.result = ExistFalse]
                   ELSE [IdleSearch EXCEPT !.pc = "any", !.field = field,
                                           !.value = value, !.v = v,
                                           !.order = tryOrder(f)]
  /\ UNCHANGED <<env, now, entries, bucket, drive, reqs, tasks, sweeps, cleanups, dels,
                 cache, rejected, sent, img, adb, ajobs>>

\* anyRow = await dbFirst(SELECT ... WHERE col = ? ORDER BY ... DESC LIMIT 1)
SearchAny ==
  /\ srch.pc = "any"
  /\ \E dbOk \in BOOLEAN :
       LET c == Head(srch.order)
           rows == Matching(c, srch.v)
           q == [srch EXCEPT !.queried = Append(@, <<"any", c>>)]
       IN  IF ~dbOk \/ "norm" \in env.missing
           THEN srch' = [q EXCEPT !.pc = "threw"]
           ELSE IF rows = {}
           THEN srch' = IF Tail(srch.order) = << >>
                        THEN [q EXCEPT !.pc = "done", !.result = ExistFalse]
                        ELSE [q EXCEPT !.order = Tail(@)]
           ELSE \E i \in Latest(rows) :
                  srch' = [q EXCEPT !.pc = "proof",
                                    !.anyRow = [id |-> i,
                                                name_passport |-> entries[i].name_passport,
                                                mykad_passport |-> entries[i].mykad_passport,
                                                regnum |-> entries[i].regnum]]
  /\ UNCHANGED <<env, now, entries, bucket, drive, reqs, tasks, sweeps, cleanups, dels,
                 cache, rejected, sent, img, adb, ajobs>>

\* proofRow = await dbFirst(SELECT drive_url ...); break; then the result
SearchProof ==
  /\ srch.pc = "proof"
  /\ \E dbOk \in BOOLEAN :
       LET c == Head(srch.order)
           rows == WithProof(c, srch.v)
           q == [srch EXCEPT !.queried = Append(@, <<"proof", c>>), !.pc = "done"]
       IN  IF ~dbOk \/ env.missing # {}
           THEN srch' = [q EXCEPT !.pc = "threw"]
           ELSE IF rows = {}
           THEN srch' = [q EXCEPT !.result = ExpiredShape]
           ELSE \E i \in Latest(rows) :
                  srch' = [q EXCEPT !.result =
                             IF toText(entries[i].drive_url) = EMPTY
                             THEN ExpiredShape
                             ELSE ActiveShape(srch.anyRow, entries[i].drive_url)]
  /\ UNCHANGED <<env, now, entries, bucket, drive, reqs, tasks, sweeps, cleanups, dels,
                 cache, rejected, sent, img, adb, ajobs>>

\* ------------------------------------------------------------ the inputs
Input(txn, name, mykad, reg, image) ==
  [clientTxnId |-> txn, namePassport |-> name, mykadPassport |-> mykad,
   regnum |-> reg, imageUrl |-> image]

PNG == "data:image/png;base64,QUJD"
K1 == <<"K", "1">>
k_1 == <<"k", "-", "1">>

\* the answers of the archive to a SYNC of entry id
FailureResps ==
  { NetError,
    Http(500, BodyGarbage),
    Http(200, BodyGarbage),
    Http(200, BodyEmpty),
    Http(200, BodyJson([kind |-> "null"])),
    Http(200, BodyJson([kind |-> "scalar"])),
    Http(200, BodyJson(Obj("false", NULL, NULL))),
    Http(200, BodyJson(Obj("absent", NULL, NULL))) }
SuccessResps(id) ==
  { Http(200, BodyJson(Obj("true", NULL, NULL))),
    Http(200, BodyJson(Obj("true", <<" ">>, EMPTY))),
    Http(200, BodyJson(Obj("true", FileOf(id), UrlOf(id)))) }
AllResps(id) ==
  FailureResps
    \cup {Http(200, BodyJson(Obj("true-string", FileOf(id), UrlOf(id)))),
          Http(302, BodyJson(Obj("true", FileOf(id), UrlOf(id)))),
          Http(201, BodyJson(Obj("true", FileOf(id), UrlOf(id))))}
    \cup SuccessResps(id)
FewResps(id) ==
  { NetError, Http(200, BodyJson(Obj("true", NULL, NULL))),
    Http(200, BodyJson(Obj("true", FileOf(id), UrlOf(id)))) }

\* --------------------------------------------------------- specifications
\* One state machine, checked in four scopes: each takes the actions of the
\* handlers it is about and bounds the requests, the sweeps and the clock.

\* the sync engine: one or more entries, the detached sync, overlapping sweeps
SyncInputs == {Input(EMPTY, <<"z">>, EMPTY, k_1, "")}
NextSync ==
  \/ \E r \in 1..SyncReqs : SubmitDedup(r, SyncInputs)
  \/ \E r \in 1..SyncReqs : SubmitInsert(r)
  \/ \E t \in BagToSet(tasks) : SyncAttempt(t)
  \/ \E t \in BagToSet(tasks) : SyncResponse(t, AllResps(t.id))
  \/ \E t \in BagToSet(tasks) : SyncUpdate(t)
  \/ Scheduled(SyncSweeps)
  \/ \E c \in BagToSet(cleanups) : CleanupSelect(c)
SpecSync == Init /\ [][NextSync]_vars

\* the same scope with either version of syncToGoogle
InitBoth ==
  InitEnv([sync : BOOLEAN, version : {"v6", "v4"}, store : {"flaky"}, missing : {{}},
           viewToken : {"s"}])
SpecSyncBoth == InitBoth /\ [][NextSync]_vars

\* the write path: concurrent submissions, with and without a token or a photo
SubmitInputs ==
  {Input(t, <<"z">>, K1, EMPTY, u) : t \in {EMPTY, <<"T">>, <<" ", "T">>}, u \in {"", PNG}}
NextSubmit ==
  \/ \E r \in 1..SubmitReqs : SubmitDedup(r, SubmitInputs)
  \/ \E r \in 1..SubmitReqs : SubmitPut(r)
  \/ \E r \in 1..SubmitReqs : SubmitInsert(r)
  \/ \E r \in 1..SubmitReqs : SubmitUndo(r)
SpecSubmit == Init /\ [][NextSubmit]_vars

\* retention: entries with a photo, synced or not, then the sweep's cleanup
\* ------------------------------------------------------------ GET /search
\* "Cache-Control": "public, max-age=15", here in seconds of the model's clock
maxAge == 1
\* cacheKey = new Request(url.toString()): the query as it was sent
cacheKey(field, value) == <<field, value>>
\* cache.match(cacheKey): an answer cached less than max-age ago
CacheHit(k) == k \in DOMAIN cache /\ now - cache[k].at < 2 * maxAge

\* const cached = await cache.match(cacheKey); if (cached) return cached;
SearchCached(Fields, Values) ==
  /\ srch.pc = "idle"
  /\ \E field \in Fields, value \in Values :
       /\ toText(value) # EMPTY
       /\ CacheHit(cacheKey(field, value))
       /\ srch' = [IdleSearch EXCEPT !.pc = "done", !.field = field, !.value = value,
                                     !.v = normKey(value),
                                     !.result = cache[cacheKey(field, value)].body,
                                     !.hit = TRUE]
  /\ UNCHANGED <<env, now, entries, bucket, drive, reqs, tasks, sweeps, cleanups, dels,
                 cache, rejected, sent, img, adb, ajobs>>

\* with no cached answer the handler calls d1Search
SearchMiss(Fields, Values) ==
  \E field \in Fields, value \in Values :
    /\ ~CacheHit(cacheKey(field, value))
    /\ SearchStart({field}, {value})

\* the archive's own search, proxied: it answers ok, answers with an error
\* status, or the fetch itself rejects
GasSearch == {"ok", "http", "net"}
\* the text of an archive error page, which the handler relays as it is
GasError == [exist |-> FALSE, error |-> TRUE]

\* the answer is sent.  An empty value is answered at once and a cached answer
\* as it was cached.  With no row found, or d1Search having thrown, and the
\* archive configured, the archive's own search answers instead, with its own
\* status, and is cached when it answered ok; the fetch is not in a try.
\* Otherwise the d1Search answer, {exist:false} if it threw, is sent and cached.
SearchRespond ==
  /\ srch.pc \in {"done", "threw"}
  /\ LET k == cacheKey(srch.field, srch.value)
         found == srch.pc = "done" /\ srch.result.exist
         bodyObj == IF srch.pc = "done" THEN srch.result ELSE ExistFalse
         put(body) == (k :> [body |-> body, at |-> now]) @@ cache
     IN  IF toText(srch.value) = EMPTY \/ srch.hit
         THEN sent' = Sent("search", 200, bodyObj) /\ cache' = cache
         ELSE IF env.sync /\ ~found
         THEN \E g \in GasSearch :
                /\ sent' = CASE g = "ok" -> Sent("search", 200, ExistFalse)
                              [] g = "http" -> Sent("search", 500, GasError)
                              [] g = "net" -> Uncaught("search")
                /\ cache' = IF g = "ok" THEN put(ExistFalse) ELSE cache
         ELSE sent' = Sent("search", 200, bodyObj) /\ cache' = put(bodyObj)
  /\ srch' = IdleSearch
  /\ UNCHANGED <<env, now, entries, bucket, drive, reqs, tasks, sweeps, cleanups, dels,
                 rejected, img, adb, ajobs>>

PurgeInputs == {Input(EMPTY, <<"z">>, EMPTY, k_1, u) : u \in {"", PNG}}
NextPurge ==
  \/ \E r \in 1..PurgeReqs : SubmitDedup(r, PurgeInputs)
  \/ \E r \in 1..PurgeReqs : SubmitPut(r)
  \/ \E r \in 1..PurgeReqs : SubmitInsert(r)
  \/ \E r \in 1..PurgeReqs : SubmitUndo(r)
  \/ \E t \in BagToSet(tasks) : SyncAttempt(t)
  \/ \E t \in BagToSet(tasks) : SyncResponse(t, FewResps(t.id))
  \/ \E t \in BagToSet(tasks) : SyncUpdate(t)
  \/ Scheduled(PurgeSweeps)
  \/ \E c \in BagToSet(cleanups) : CleanupSelect(c)
  \/ \E c \in BagToSet(cleanups) : CleanupDelete(c)
  \/ \E c \in BagToSet(cleanups) : CleanupR2(c)
  \/ \E d \in BagToSet(dels) : DriveDelete(d)
  \/ Tick(MaxTime)
SpecPurge == Init /\ [][NextPurge]_vars

\* search: entries under either key, synced or not, created in the same second
\* or in different ones
SearchInputs ==
  {Input(EMPTY, <<"z">>, K1, EMPTY, ""), Input(EMPTY, <<"z">>, EMPTY, k_1, ""),
   Input(EMPTY, <<"z">>, <<"z">>, k_1, "")}
SearchFields == {EMPTY, <<"r", "e", "g">>, <<"I", "D">>, <<"x">>}
SearchValues == {EMPTY, <<"-", " ">>, <<" ", "k", "1">>}
SearchResps(id) == {NetError, Http(200, BodyJson(Obj("true", FileOf(id), UrlOf(id))))}
\* the store is at rest while the search runs: its answer is for the rows it read
AtRest == srch.pc = "idle"
NextSearch ==
  \/ AtRest /\ \E r \in 1..SearchReqs : SubmitDedup(r, SearchInputs)
  \/ AtRest /\ \E r \in 1..SearchReqs : SubmitInsert(r)
  \/ AtRest /\ \E t \in BagToSet(tasks) : SyncAttempt(t)
  \/ AtRest /\ \E t \in BagToSet(tasks) : SyncResponse(t, SearchResps(t.id))
  \/ AtRest /\ \E t \in BagToSet(tasks) : SyncUpdate(t)
  \/ AtRest /\ Tick(SearchTime)
  \/ SearchStart(SearchFields, SearchValues)
  \/ SearchAny
  \/ SearchProof
SpecSearch == Init /\ [][NextSearch]_vars

\* the sync engine with its steps and the sweep scheduled fairly, the store of
\* the status updates up or flaky
InitLive ==
  InitEnv([sync : {TRUE}, version : {"v6"}, store : {"up", "flaky"}, missing : {{}},
           viewToken : {"s"}])
SpecLive ==
  /\ InitLive
  /\ [][NextSync]_vars
  /\ WF_vars(\E t \in BagToSet(tasks) : SyncAttempt(t))
  /\ WF_vars(\E t \in BagToSet(tasks) : SyncResponse(t, AllResps(t.id)))
  /\ WF_vars(\E t \in BagToSet(tasks) : SyncUpdate(t))
  /\ WF_vars(Scheduled(SyncSweeps))

\* one entry retried by the sweep until the attempt cap
CapReqs == 1
CapSweeps == 5
CapResps(id) == {NetError, Http(200, BodyJson(Obj("true", FileOf(id), UrlOf(id))))}
NextCap ==
  \/ \E r \in 1..CapReqs : SubmitDedup(r, SyncInputs)
  \/ \E r \in 1..CapReqs : SubmitInsert(r)
  \/ \E t \in BagToSet(tasks) : SyncAttempt(t)
  \/ \E t \in BagToSet(tasks) : SyncResponse(t, CapResps(t.id))
  \/ \E t \in BagToSet(tasks) : SyncUpdate(t)
  \/ Scheduled(CapSweeps)
  \/ \E c \in BagToSet(cleanups) : CleanupSelect(c)
SpecCap == Init /\ [][NextCap]_vars

\* submissions with a payload the handler has to refuse: an image that is not
\* a data URL (token B), a data URL with no payload (token M), no identity
\* field at all (token N), next to a well-formed one (token P)
InputReqs == 2
NotDataUrl == "http://x/p.png"
EmptyDataUrl == "data:image/png;base64,"
TokB == <<"B">>
TokM == <<"M">>
TokN == <<"N">>
TokP == <<"P">>
InputInputs ==
  {Input(TokB, <<"z">>, K1, EMPTY, NotDataUrl),
   Input(TokM, <<"z">>, K1, EMPTY, EmptyDataUrl),
   Input(TokN, <<"z">>, EMPTY, EMPTY, ""),
   Input(TokP, <<"z">>, K1, EMPTY, PNG)}
NextInput ==
  \/ \E r \in 1..InputReqs : SubmitDedup(r, InputInputs)
  \/ \E r \in 1..InputReqs : SubmitPut(r)
  \/ \E r \in 1..InputReqs : SubmitInsert(r)
  \/ \E r \in 1..InputReqs : SubmitUndo(r)
SpecInput == Init /\ [][NextInput]_vars

\* the write path on a table that lacks optional columns
InitSchema ==
  InitEnv([sync : {FALSE}, version : {"v6"}, store : {"flaky"},
           missing : SUBSET FullColumns, viewToken : {"s"}])
SpecSchema == InitSchema /\ [][NextSubmit]_vars

\* the cached search: one entry with a photo, searched before and after its sync
CacheReqs == 1
CacheTime == 3
CacheInputs == {Input(EMPTY, <<"z">>, EMPTY, k_1, PNG)}
CacheFields == {<<"r", "e", "g">>}
CacheValues == {EMPTY, <<"-", " ">>, <<" ", "k", "1">>}
NextCache ==
  \/ AtRest /\ \E r \in 1..CacheReqs : SubmitDedup(r, CacheInputs)
  \/ AtRest /\ \E r \in 1..CacheReqs : SubmitPut(r)
  \/ AtRest /\ \E r \in 1..CacheReqs : SubmitInsert(r)
  \/ AtRest /\ \E r \in 1..CacheReqs : SubmitUndo(r)
  \/ AtRest /\ \E t \in BagToSet(tasks) : SyncAttempt(t)
  \/ AtRest /\ \E t \in BagToSet(tasks) : SyncResponse(t, SearchResps(t.id))
  \/ AtRest /\ \E t \in BagToSet(tasks) : SyncUpdate(t)
  \/ AtRest /\ Tick(CacheTime)
  \/ SearchCached(CacheFields, CacheValues)
  \/ SearchMiss(CacheFields, CacheValues)
  \/ SearchAny
  \/ SearchProof
  \/ SearchRespond
SpecCache == Init /\ [][NextCache]_vars

\* searches, cached or not, among the syncs of two entries
FrameReqs == 2
FrameInputs == {Input(EMPTY, <<"z">>, K1, EMPTY, ""), Input(EMPTY, <<"z">>, EMPTY, k_1, "")}
NextFrame ==
  \/ AtRest /\ \E r \in 1..FrameReqs : SubmitDedup(r, FrameInputs)
  \/ AtRest /\ \E r \in 1..FrameReqs : SubmitInsert(r)
  \/ AtRest /\ \E t \in BagToSet(tasks) : SyncAttempt(t)
  \/ AtRest /\ \E t \in BagToSet(tasks) : SyncResponse(t, SearchResps(t.id))
  \/ AtRest /\ \E t \in BagToSet(tasks) : SyncUpdate(t)
  \/ SearchCached(CacheFields, CacheValues)
  \/ SearchMiss(CacheFields, CacheValues)
  \/ SearchAny
  \/ SearchProof
  \/ SearchRespond
SpecFrame == Init /\ [][NextFrame]_vars

\* the key normalizer on every text of up to NormLen characters: letters of
\* either case, a digit, punctuation and white space
NormLen == 3
NormAlphabet == {"k", "K", "1", "-", " "}
NormTexts == UNION {[1..n -> NormAlphabet] : n \in 0..NormLen}
NextNorm == SearchStart(CacheFields, NormTexts)
SpecNorm == Init /\ [][NextNorm]_vars

\* -------------------------------------------------------------- GET /image
\* the bodies of the answers: a text and no bytes, or the object's bytes
NoBytes == [bytes |-> NoKey]
Bytes(key) == [bytes |-> key]

\* GET /image?id=&token= up to its first await:
\* if (!id || !env.IMAGE_VIEW_TOKEN || token !== env.IMAGE_VIEW_TOKEN) 401
ImageStart(ReqIds, Tokens) ==
  /\ img.pc = "idle"
  /\ \E id \in ReqIds, token \in Tokens :
       IF id = 0 \/ env.viewToken = "" \/ token # env.viewToken
       THEN sent' = Sent("image", 401, NoBytes) /\ img' = img
       ELSE sent' = sent /\ img' = [IdleImage EXCEPT !.pc = "row", !.id = id]
  /\ UNCHANGED <<env, now, entries, bucket, drive, reqs, tasks, sweeps, cleanups, dels,
                 srch, cache, rejected, adb, ajobs>>

\* row = await dbFirst("SELECT image_key FROM entries WHERE id = ? LIMIT 1");
\* if (!row || !row.image_key) 404.  The await is in no try block.
ImageRow ==
  /\ img.pc = "row"
  /\ \E dbOk \in BOOLEAN :
       IF ~dbOk
       THEN sent' = Uncaught("image") /\ img' = IdleImage
       ELSE IF img.id \notin DOMAIN entries \/ entries[img.id].image_key = NoKey
       THEN sent' = Sent("image", 404, NoBytes) /\ img' = IdleImage
       ELSE sent' = sent /\ img' = [img EXCEPT !.pc = "obj",
                                               !.key = entries[img.id].image_key]
  /\ UNCHANGED <<env, now, entries, bucket, drive, reqs, tasks, sweeps, cleanups, dels,
                 srch, cache, rejected, adb, ajobs>>

\* obj = await env.BUCKET.get(row.image_key); if (!obj) 404; else the bytes
ImageObject ==
  /\ img.pc = "obj"
  /\ \E getOk \in BOOLEAN :
       sent' = IF ~getOk THEN Uncaught("image")
               ELSE IF img.key \notin bucket THEN Sent("image", 404, NoBytes)
               ELSE Sent("image", 200, Bytes(img.key))
  /\ img' = IdleImage
  /\ UNCHANGED <<env, now, entries, bucket, drive, reqs, tasks, sweeps, cleanups, dels,
                 srch, cache, rejected, adb, ajobs>>

\* the image route: entries with and without a photo, the retention cleanup
\* that deletes objects and rows, and requests with every kind of token
ImageReqs == 1
ImageSweeps == 1
ImageTime == 4
InitImage ==
  InitEnv([sync : {FALSE}, version : {"v6"}, store : {"flaky"}, missing : {{}},
           viewToken : {"", "s"}])
ImageTokens == {"", "s", "x"}
NextImage ==
  \/ \E r \in 1..ImageReqs : SubmitDedup(r, PurgeInputs)
  \/ \E r \in 1..ImageReqs : SubmitPut(r)
  \/ \E r \in 1..ImageReqs : SubmitInsert(r)
  \/ \E r \in 1..ImageReqs : SubmitUndo(r)
  \/ Scheduled(ImageSweeps)
  \/ \E c \in BagToSet(cleanups) : CleanupSelect(c)
  \/ \E c \in BagToSet(cleanups) : CleanupDelete(c)
  \/ \E c \in BagToSet(cleanups) : CleanupR2(c)
  \/ Tick(ImageTime)
  \/ ImageStart(0..(ImageReqs + 1), ImageTokens)
  \/ ImageRow
  \/ ImageObject
SpecImage == InitImage /\ [][NextImage]_vars

\* ======================================================= worker.js variant
\* what the steps of worker.js leave alone
others ==
  <<env, now, entries, bucket, drive, reqs, tasks, sweeps, cleanups, dels, srch, cache,
    rejected, sent, img>>

\* normalizeKey(s): String(s || "").trim().toUpperCase()
normalizeKey(s) == toUpper(s)
\* makeKey(type, raw): "DOC:k" or "REG:k", null for an empty key
makeKey(type, raw) ==
  IF normalizeKey(raw) = EMPTY THEN NULL ELSE <<type, normalizeKey(raw)>>

\* Number(env.RETENTION_DAYS || 120) with RETENTION_DAYS = 30, and the 30 days
\* of the photos purge, in the clock's unit of 30 days; Number(PURGE_BATCH || 50)
aliasRetention == 1
thirtyDays == 1
batch == 50

\* res of callAppsScript's fetch: the fetch rejected, or a status with the
\* parsed text: "null" (not JSON), "{}" (an object without ok), ok true or false
ARes(status, data) == [net |-> FALSE, status |-> status, data |-> data]
ANetError == [net |-> TRUE, status |-> 0, data |-> "none"]
\* if (!res.ok || !data || data.ok === false) throw
callAppsScriptThrows(res) ==
  \/ res.net
  \/ res.status \notin 200..299
  \/ res.data = "null"
  \/ res.data = "ok:false"
\* the archive did what was asked when it says so
ArchiveDid(res) == ~res.net /\ res.status \in 200..299 /\ res.data = "ok:true"

SetSub(r, sub) == ajobs' = [ajobs EXCEPT !.subs[r] = sub]
\* the handler returns a response; an exception leaves it (there is no try)
AFinish(r, resp) == SetSub(r, [ajobs.subs[r] EXCEPT !.pc = "done", !.resp = resp])
AThrow(r) == AFinish(r, Uncaught("submit"))

\* lines 218-235: docNo wins; ts = nowMs(); the upload comes first if any
AfterResolve(sub) ==
  [sub EXCEPT !.primaryKey = IF sub.docNo # EMPTY THEN makeKey("DOC", sub.docNo) ELSE @,
              !.ts = now,
              !.pc = IF sub.photo THEN "upload" ELSE "existing"]

\* POST /api/submit up to its first await after readJson
ASubmitStart(r, Bodies) ==
  /\ ajobs.subs[r].pc = "idle"
  /\ \E body \in Bodies :
       LET docNo == normalizeKey(body.docNo)
           regNo == normalizeKey(body.regNo)
           searchedKey == normalizeKey(body.searchedKey)
           sub == [IdleSub EXCEPT
                     !.docNo = docNo, !.regNo = regNo, !.photo = body.photoBase64,
                     !.primaryKey = IF docNo # EMPTY THEN makeKey("DOC", docNo)
                                    ELSE makeKey("REG", regNo)]
       IN  IF docNo = EMPTY /\ regNo = EMPTY
           THEN AFinish(r, Sent("submit", 400, [ok |-> FALSE]))
           ELSE IF searchedKey # EMPTY
           THEN SetSub(r, [sub EXCEPT !.pc = "alias",
                                      !.tries = <<makeKey("DOC", searchedKey),
                                                  makeKey("REG", searchedKey)>>])
           ELSE SetSub(r, AfterResolve(sub))
  /\ UNCHANGED <<adb, others>>

\* resolvePrimaryKey: SELECT primaryKey FROM key_aliases WHERE aliasKey = k
AResolveAlias(r) ==
  /\ ajobs.subs[r].pc = "alias"
  /\ \E dbOk \in BOOLEAN :
       LET sub == ajobs.subs[r]
           k == Head(sub.tries)
       IN  IF ~dbOk THEN AThrow(r)
           ELSE SetSub(r, [sub EXCEPT !.pc = "record",
                                      !.cand = IF k \in DOMAIN adb.aliases
                                               THEN adb.aliases[k] ELSE k])
  /\ UNCHANGED <<adb, others>>

\* resolvePrimaryKey: SELECT primaryKey FROM records_latest WHERE primaryKey = ?
AResolveRecord(r) ==
  /\ ajobs.subs[r].pc = "record"
  /\ \E dbOk \in BOOLEAN :
       LET sub == ajobs.subs[r]
       IN  IF ~dbOk THEN AThrow(r)
           ELSE IF sub.cand \in DOMAIN adb.records
           THEN SetSub(r, AfterResolve([sub EXCEPT !.primaryKey = sub.cand]))
           ELSE IF Tail(sub.tries) = << >>
           THEN SetSub(r, AfterResolve(sub))
           ELSE SetSub(r, [sub EXCEPT !.pc = "alias", !.tries = Tail(@)])
  /\ UNCHANGED <<adb, others>>

\* the archive's answers to an upload: stored, or an error page
UploadResps == {ARes(200, "ok:true"), ARes(500, "null")}
\* uploaded = await callAppsScript(env, {action: "upload", ...})
AUpload(r) ==
  /\ ajobs.subs[r].pc = "upload"
  /\ \E res \in UploadResps :
       IF callAppsScriptThrows(res)
       THEN AThrow(r) /\ adb' = adb
       ELSE /\ SetSub(r, [ajobs.subs[r] EXCEPT !.pc = "existing", !.uploaded = r])
            /\ adb' = [adb EXCEPT !.files = @ \cup {r}]
  /\ UNCHANGED others

\* existing = SELECT createdAt, photoId FROM records_latest WHERE primaryKey = ?
AExisting(r) ==
  /\ ajobs.subs[r].pc = "existing"
  /\ \E dbOk \in BOOLEAN :
       LET sub == ajobs.subs[r]
           pk == sub.primaryKey
           existing == IF pk \in DOMAIN adb.records
                       THEN [createdAt |-> adb.records[pk].createdAt,
                             photoId |-> adb.records[pk].photoId]
                       ELSE NoExisting
       IN  IF ~dbOk THEN AThrow(r)
           ELSE SetSub(r, [sub EXCEPT
                  !.existing = existing,
                  !.photoUpdatedAt = IF sub.uploaded # NoPhoto THEN sub.ts ELSE NoTime,
                  !.pc = IF sub.uploaded = NoPhoto /\ existing.photoId # NoPhoto
                         THEN "pua" ELSE "upsert"])
  /\ UNCHANGED <<adb, others>>

\* (await SELECT photoUpdatedAt FROM records_latest WHERE primaryKey = ?)
APhotoUpdatedAt(r) ==
  /\ ajobs.subs[r].pc = "pua"
  /\ \E dbOk \in BOOLEAN :
       LET sub == ajobs.subs[r]
           pk == sub.primaryKey
       IN  IF ~dbOk THEN AThrow(r)
           ELSE SetSub(r, [sub EXCEPT
                  !.pc = "upsert",
                  !.photoUpdatedAt = IF pk \in DOMAIN adb.records
                                     THEN adb.records[pk].photoUpdatedAt ELSE NoTime])
  /\ UNCHANGED <<adb, others>>

\* COALESCE(excluded.x, records_latest.x)
coalesce(x, old, null) == IF x # null THEN x ELSE old
\* upsertAliases: the alias keys of the document and of the registration
aliasItems(docNo, regNo) ==
  (IF docNo # EMPTY THEN <<makeKey("DOC", docNo)>> ELSE << >>)
    \o (IF regNo # EMPTY THEN <<makeKey("REG", regNo)>> ELSE << >>)

\* INSERT INTO records_latest ... ON CONFLICT(primaryKey) DO UPDATE SET ...
AUpsertRecord(r) ==
  /\ ajobs.subs[r].pc = "upsert"
  /\ \E dbOk \in BOOLEAN :
       LET sub == ajobs.subs[r]
           pk == sub.primaryKey
           excluded ==
             [docNo |-> sub.docNo, regNo |-> sub.regNo,
              photoId |-> sub.uploaded, photoUrl |-> sub.uploaded,
              photoUpdatedAt |-> sub.photoUpdatedAt,
              createdAt |-> IF sub.existing.createdAt # NoTime
                            THEN sub.existing.createdAt ELSE sub.ts,
              updatedAt |-> sub.ts]
           row == IF pk \in DOMAIN adb.records
                  THEN LET old == adb.records[pk]
                       IN  [excluded EXCEPT
                              !.photoId = coalesce(@, old.photoId, NoPhoto),
                              !.photoUrl = coalesce(@, old.photoUrl, NoPhoto),
                              !.photoUpdatedAt = coalesce(@, old.photoUpdatedAt, NoTime),
                              !.createdAt = old.createdAt]
                  ELSE excluded
       IN  IF ~dbOk THEN AThrow(r) /\ adb' = adb
           ELSE /\ adb' = [adb EXCEPT !.records = (pk :> row) @@ @]
                /\ SetSub(r, [sub EXCEPT !.pc = "aliases",
                                         !.items = aliasItems(sub.docNo, sub.regNo)])
  /\ UNCHANGED others

\* upsertAliases, one statement of its loop:
\* INSERT INTO key_aliases ... ON CONFLICT(aliasKey) DO UPDATE SET primaryKey = ...
AUpsertAlias(r) ==
  /\ ajobs.subs[r].pc = "aliases"
  /\ \E dbOk \in BOOLEAN :
       LET sub == ajobs.subs[r]
       IN  IF ~dbOk THEN AThrow(r) /\ adb' = adb
           ELSE /\ adb' = [adb EXCEPT !.aliases = (Head(sub.items) :> sub.primaryKey) @@ @]
                /\ SetSub(r, [sub EXCEPT !.items = Tail(@),
                                         !.pc = IF Tail(sub.items) = << >>
                                                THEN "log" ELSE "aliases"])
  /\ UNCHANGED others

\* the answer of a submission that ran to its end
AOk(sub) == Sent("submit", 200, [ok |-> TRUE])

\* INSERT INTO visits_log(primaryKey, ts, purpose)
ALogVisit(r) ==
  /\ ajobs.subs[r].pc = "log"
  /\ \E dbOk \in BOOLEAN :
       LET sub == ajobs.subs[r]
       IN  IF ~dbOk THEN AThrow(r) /\ adb' = adb
           ELSE /\ adb' = [adb EXCEPT !.visits = @ \cup {[by |-> r, ts |-> sub.ts]}]
                /\ IF sub.uploaded # NoPhoto
                   THEN SetSub(r, [sub EXCEPT !.pc = "photo"])
                   ELSE AFinish(r, AOk(sub))
  /\ UNCHANGED others

\* if (uploaded?.photoId) INSERT INTO photos(photoId, primaryKey, createdAt,
\* expiresAt, deletedAt) ... ON CONFLICT(photoId) DO UPDATE SET primaryKey
AInsertPhoto(r) ==
  /\ ajobs.subs[r].pc = "photo"
  /\ \E dbOk \in BOOLEAN :
       LET sub == ajobs.subs[r]
           p == sub.uploaded
           row == IF p \in DOMAIN adb.photos
                  THEN [adb.photos[p] EXCEPT !.primaryKey = sub.primaryKey]
                  ELSE [primaryKey |-> sub.primaryKey, createdAt |-> sub.ts,
                        expiresAt |-> sub.ts + aliasRetention, deletedAt |-> NoTime]
       IN  IF ~dbOk THEN AThrow(r) /\ adb' = adb
           ELSE /\ adb' = [adb EXCEPT !.photos = (p :> row) @@ @]
                /\ AFinish(r, AOk(sub))
  /\ UNCHANGED others

\* ------------------------------------------------------------ purgeExpired
SetPurge(pg) == ajobs' = [ajobs EXCEPT !.purge = pg]
\* the cycle ends: its last statement ran, or a statement threw
PurgeEnd(last) == SetPurge([IdlePurge EXCEPT !.n = ajobs.purge.n, !.last = last])
\* the loop over expired.results goes on to its next row, or the loop is over
NextRow(pg, rows) ==
  [pg EXCEPT !.rows = rows, !.pc = IF rows = {} THEN "log" ELSE "del"]

\* SELECT photoId, primaryKey FROM photos
\* WHERE deletedAt IS NULL AND expiresAt <= ts LIMIT batch
expired(ts) ==
  {[photoId |-> p, primaryKey |-> adb.photos[p].primaryKey] :
     p \in {x \in DOMAIN adb.photos :
              adb.photos[x].deletedAt = NoTime /\ adb.photos[x].expiresAt <= ts}}
\* LIMIT n with no ORDER BY: any n of the rows
Limit(S, n) ==
  {T \in SUBSET S : Cardinality(T) = IF Cardinality(S) < n THEN Cardinality(S) ELSE n}

\* scheduled(): purgeExpired(env) up to the SELECT of the expired photos
APurgeStart(maxPurges) ==
  /\ ajobs.purge.pc = "idle"
  /\ ajobs.purge.n < maxPurges
  /\ \E dbOk \in BOOLEAN :
       LET pg == [IdlePurge EXCEPT !.n = ajobs.purge.n + 1, !.ts = now]
       IN  IF ~dbOk THEN SetPurge([pg EXCEPT !.last = "threw"])
           ELSE \E rows \in Limit(expired(now), batch) : SetPurge(NextRow(pg, rows))
  /\ UNCHANGED <<adb, others>>

\* the archive's answers to a delete: done; refused; an error page; an object
\* without ok, the file still there; no answer, the file deleted or not
DeleteResps ==
  {ARes(200, "ok:true"), ARes(200, "ok:false"), ARes(500, "null"), ARes(200, "{}"),
   ANetError}
\* await callAppsScript(env, {action: "delete", photoId: row.photoId})
APurgeDelete ==
  /\ ajobs.purge.pc = "del"
  /\ \E row \in ajobs.purge.rows, res \in DeleteResps, gone \in BOOLEAN :
       /\ gone = IF res.net THEN gone ELSE ArchiveDid(res)
       /\ adb' = [adb EXCEPT !.files = IF gone THEN @ \ {row.photoId} ELSE @]
       /\ IF callAppsScriptThrows(res)
          THEN SetPurge(NextRow(ajobs.purge, ajobs.purge.rows \ {row}))
          ELSE SetPurge([ajobs.purge EXCEPT !.pc = "mark", !.row = row, !.res = res,
                                            !.rows = @ \ {row}])
  /\ UNCHANGED others

\* UPDATE photos SET deletedAt = ts WHERE photoId = ?
markDeleted(photos, row, ts) ==
  IF row.photoId \in DOMAIN photos
  THEN [photos EXCEPT ![row.photoId].deletedAt = ts] ELSE photos
\* UPDATE records_latest SET photoId = NULL, photoUrl = NULL,
\* photoUpdatedAt = NULL, updatedAt = ts WHERE primaryKey = ? AND photoId = ?
clearPhoto(records, row, ts) ==
  IF row.primaryKey \in DOMAIN records /\ records[row.primaryKey].photoId = row.photoId
  THEN [records EXCEPT ![row.primaryKey].photoId = NoPhoto,
                       ![row.primaryKey].photoUrl = NoPhoto,
                       ![row.primaryKey].photoUpdatedAt = NoTime,
                       ![row.primaryKey].updatedAt = ts]
  ELSE records

\* the first UPDATE of the try block; a failure is caught and the row left
APurgeMark ==
  /\ ajobs.purge.pc = "mark"
  /\ \E dbOk \in BOOLEAN :
       LET pg == ajobs.purge
       IN  IF ~dbOk THEN SetPurge(NextRow(pg, pg.rows)) /\ adb' = adb
           ELSE /\ adb' = [adb EXCEPT !.photos = markDeleted(@, pg.row, pg.ts)]
                /\ SetPurge([pg EXCEPT !.pc = "clear"])
  /\ UNCHANGED others

\* the second UPDATE of the try block
APurgeClear ==
  /\ ajobs.purge.pc = "clear"
  /\ \E dbOk \in BOOLEAN :
       LET pg == ajobs.purge
       IN  /\ adb' = IF dbOk THEN [adb EXCEPT !.records = clearPhoto(@, pg.row, pg.ts)]
                     ELSE adb
           /\ SetPurge(NextRow(pg, pg.rows))
  /\ UNCHANGED others

\* cutoff = ts - retentionDays * 24 * 60 * 60 * 1000
cutoff(ts) == ts - aliasRetention
\* DELETE FROM visits_log WHERE ts < cutoff
APurgeLog ==
  /\ ajobs.purge.pc = "log"
  /\ \E dbOk \in BOOLEAN :
       LET pg == ajobs.purge
       IN  IF ~dbOk THEN PurgeEnd("threw") /\ adb' = adb
           ELSE /\ adb' = [adb EXCEPT !.visits = {v \in @ : ~(v.ts < cutoff(pg.ts))}]
                /\ SetPurge([pg EXCEPT !.pc = "photos"])
  /\ UNCHANGED others

\* DELETE FROM photos WHERE deletedAt IS NOT NULL AND deletedAt < photoCutoff
APurgePhotos ==
  /\ ajobs.purge.pc = "photos"
  /\ \E dbOk \in BOOLEAN :
       LET pg == ajobs.purge
           keep == {p \in DOMAIN adb.photos :
                      ~(adb.photos[p].deletedAt # NoTime
                        /\ adb.photos[p].deletedAt < pg.ts - thirtyDays)}
       IN  IF ~dbOk THEN PurgeEnd("threw") /\ adb' = adb
           ELSE /\ adb' = [adb EXCEPT !.photos = [p \in keep |-> @[p]]]
                /\ SetPurge([pg EXCEPT !.pc = "records"])
  /\ UNCHANGED others

\* DELETE FROM records_latest
\* WHERE updatedAt < cutoff AND (photoId IS NULL OR photoUrl IS NULL)
APurgeRecords ==
  /\ ajobs.purge.pc = "records"
  /\ \E dbOk \in BOOLEAN :
       LET pg == ajobs.purge
           keep == {k \in DOMAIN adb.records :
                      ~(adb.records[k].updatedAt < cutoff(pg.ts)
                        /\ (adb.records[k].photoId = NoPhoto
                            \/ adb.records[k].photoUrl = NoPhoto))}
       IN  IF ~dbOk THEN PurgeEnd("threw") /\ adb' = adb
           ELSE /\ adb' = [adb EXCEPT !.records = [k \in keep |-> @[k]]]
                /\ SetPurge([pg EXCEPT !.pc = "sweep"])
  /\ UNCHANGED others

\* (mutant) the purge without its alias sweep
sweepAliasesNone(db) == db.aliases
\* DELETE FROM key_aliases
\* WHERE primaryKey NOT IN (SELECT primaryKey FROM records_latest)
sweepAliases(db) ==
  [a \in {x \in DOMAIN db.aliases : db.aliases[x] \in DOMAIN db.records} |-> db.aliases[a]]

APurgeAliases ==
  /\ ajobs.purge.pc = "sweep"
  /\ \E dbOk \in BOOLEAN :
       IF ~dbOk THEN PurgeEnd("threw") /\ adb' = adb
       ELSE /\ adb' = [adb EXCEPT !.aliases = sweepAliases(adb)]
            /\ PurgeEnd("completed")
  /\ UNCHANGED others

\* ---------------------------------------------- the alias variant's scope
AliasReqs == 2
AliasPurges == 2
AliasTime == 3
ABody(docNo, regNo, searchedKey, photo) ==
  [docNo |-> docNo, regNo |-> regNo, searchedKey |-> searchedKey, photoBase64 |-> photo]
AliasBodies ==
  {ABody(<<"a">>, <<"b">>, EMPTY, FALSE), ABody(EMPTY, <<" ", "b">>, <<"b">>, FALSE),
   ABody(<<"a">>, EMPTY, EMPTY, TRUE), ABody(EMPTY, EMPTY, EMPTY, FALSE)}
\* a request and a purge cycle last far less than the clock's unit of 30 days:
\* the unit passes between them
NoJob ==
  /\ \A r \in Ids : ajobs.subs[r].pc \in {"idle", "done"}
  /\ ajobs.purge.pc = "idle"
ATick ==
  /\ NoJob
  /\ now < AliasTime
  /\ now' = now + 1
  /\ UNCHANGED <<env, entries, bucket, drive, reqs, tasks, sweeps, cleanups, dels, srch,
                 cache, rejected, sent, img, adb, ajobs>>
NextAlias ==
  \/ \E r \in 1..AliasReqs : ASubmitStart(r, AliasBodies)
  \/ \E r \in 1..AliasReqs : AResolveAlias(r)
  \/ \E r \in 1..AliasReqs : AResolveRecord(r)
  \/ \E r \in 1..AliasReqs : AUpload(r)
  \/ \E r \in 1..AliasReqs : AExisting(r)
  \/ \E r \in 1..AliasReqs : APhotoUpdatedAt(r)
  \/ \E r \in 1..AliasReqs : AUpsertRecord(r)
  \/ \E r \in 1..AliasReqs : AUpsertAlias(r)
  \/ \E r \in 1..AliasReqs : ALogVisit(r)
  \/ \E r \in 1..AliasReqs : AInsertPhoto(r)
  \/ APurgeStart(AliasPurges)
  \/ APurgeDelete
  \/ APurgeMark
  \/ APurgeClear
  \/ APurgeLog
  \/ APurgePhotos
  \/ APurgeRecords
  \/ APurgeAliases
  \/ ATick
SpecAlias == Init /\ [][NextAlias]_vars

\* objects and rows: concurrent submissions with a photo, one token or none,
\* and overlapping purges of the rows that expired
ObjectReqs == 2
ObjectSweeps == 2
ObjectTime == 4
InitObject ==
  InitEnv([sync : {FALSE}, version : {"v6"}, store : {"flaky"}, missing : {{}},
           viewToken : {"s"}])
ObjectInputs ==
  {Input(t, <<"z">>, K1, EMPTY, u) : t \in {EMPTY, <<"T">>}, u \in {"", PNG}}
NextObject ==
  \/ \E r \in 1..ObjectReqs : SubmitDedup(r, ObjectInputs)
  \/ \E r \in 1..ObjectReqs : SubmitPut(r)
  \/ \E r \in 1..ObjectReqs : SubmitInsert(r)
  \/ \E r \in 1..ObjectReqs : SubmitUndo(r)
  \/ Scheduled(ObjectSweeps)
  \/ \E c \in BagToSet(cleanups) : CleanupSelect(c)
  \/ \E c \in BagToSet(cleanups) : CleanupDelete(c)
  \/ \E c \in BagToSet(cleanups) : CleanupR2(c)
  \/ Tick(ObjectTime)
SpecObject == InitObject /\ [][NextObject]_vars

\* ================================================================ claims
\* the attempt t ends in this step: its status update is the step
Finishing(t) == BagIn(t, tasks) /\ t.pc = "resp" /\ tasks' = Remove(tasks, t)

\* the archive answered 2xx with a JSON object whose success is the boolean true
ExplicitSuccess(resp) ==
  /\ resp.net = "ok"
  /\ resp.status \in 200..299
  /\ resp.body.text = "json"
  /\ resp.body.js.kind = "object"
  /\ resp.body.js.success = "true"

Blank(x) == x = NULL \/ \A i \in DOMAIN x : x[i] = " "

\* C1: an entry's syncStatus changes only PENDING->DONE, PENDING->FAILED,
\* FAILED->DONE (or stays), and a DONE entry stays DONE.
CexC1_StatusMachine ==
  [][\A i \in DOMAIN entries \cap DOMAIN entries' :
       LET a == entries[i].sync_status
           b == entries'[i].sync_status
       IN  \/ a = b
           \/ <<a, b>> \in {<<"PENDING", "DONE">>, <<"PENDING", "FAILED">>,
                            <<"FAILED", "DONE">>}]_vars

\* C2: the status update that ends a sync attempt writes DONE only after an
\* explicit success (2xx, parsable, success exactly true), and after a network
\* error, a non-2xx status, an unparsable body or a success flag absent or not
\* true the status it writes is FAILED, in both versions of syncToGoogle.
ThmC2_DoneOnlyOnExplicitSuccess ==
  [][\A t \in BagToSet(tasks) :
       (Finishing(t) /\ t.id \in DOMAIN entries) =>
         LET a == entries[t.id].sync_status
             b == entries'[t.id].sync_status
         IN  /\ (b = "DONE" /\ entries' # entries) => ExplicitSuccess(t.resp)
             /\ ~ExplicitSuccess(t.resp) => (b = "FAILED" \/ entries' = entries)
             /\ ~ExplicitSuccess(t.resp) => (b = "DONE" => a = "DONE")]_vars

\* C2 witness: an attempt answered HTTP 200 without success has marked its entry FAILED
WitC2_AppFailureMarkedFailed ==
  \E i \in DOMAIN entries :
    /\ entries[i].sync_status = "FAILED"
    /\ entries[i].sync_error = "GAS sync app failed"

\* C3: a sync attempt never empties a stored drive_file_id or drive_url: after a
\* success that returns a blank value the stored value is kept, and a failed
\* attempt leaves both fields as they were.
ThmC3_ExternalFieldsNeverErased ==
  [][\A i \in DOMAIN entries \cap DOMAIN entries' :
       LET e == entries[i]
           f == entries'[i]
       IN  /\ e.drive_file_id # EMPTY => f.drive_file_id # EMPTY
           /\ e.drive_url # EMPTY => f.drive_url # EMPTY
           /\ \A t \in BagToSet(tasks) :
                (Finishing(t) /\ t.id = i) =>
                  IF ExplicitSuccess(t.resp)
                  THEN /\ Blank(t.resp.body.js.driveFileId) => f.drive_file_id = e.drive_file_id
                       /\ Blank(t.resp.body.js.driveUrl) => f.drive_url = e.drive_url
                  ELSE /\ f.drive_file_id = e.drive_file_id
                       /\ f.drive_url = e.drive_url]_vars

\* C3 witness: an entry that holds a link from an earlier success and was then
\* marked FAILED by a later attempt
WitC3_LinkKeptAfterLaterAttempt ==
  \E i \in DOMAIN entries :
    /\ entries[i].drive_url # EMPTY
    /\ entries[i].drive_file_id # EMPTY
    /\ entries[i].sync_status = "FAILED"
    /\ entries[i].sync_attempts >= 2

\* C4: the store never holds two entries with the same client_txn_id.
ThmC4_OneEntryPerToken ==
  \A i, j \in DOMAIN entries :
    entries[i].client_txn_id = entries[j].client_txn_id => i = j

\* C4 witness: two submissions carried the same token, both reached the INSERT,
\* and the second INSERT was refused by the UNIQUE constraint
WitC4_ConcurrentDuplicateRefused ==
  \E r, c \in Ids :
    /\ r # c
    /\ reqs[r].pc = "done" /\ reqs[c].pc = "done"
    /\ reqs[r].txn = reqs[c].txn
    /\ reqs[c].resp.status = 200 /\ c \in DOMAIN entries
    /\ reqs[r].resp.status = 500 /\ reqs[r].resp.message = UniqueError

\* C5: when one submission created the entry of a token, every other finished
\* submission carrying that token is answered success, duplicate:true and the
\* id of that entry, never an error (a store outage apart).
CexC5_DuplicateAnsweredAsDuplicate ==
  \A r, c \in Ids :
    ( /\ r # c
      /\ reqs[r].pc = "done" /\ reqs[c].pc = "done"
      /\ reqs[r].txn = reqs[c].txn
      /\ reqs[c].resp.status = 200 /\ reqs[c].resp.duplicate = FALSE
      /\ ~(reqs[r].resp.status = 500 /\ reqs[r].resp.message = StoreError) )
    => /\ reqs[r].resp.status = 200
       /\ reqs[r].resp.success = TRUE
       /\ reqs[r].resp.duplicate = TRUE
       /\ reqs[r].resp.id = reqs[c].resp.id

\* C6: a purge deletes an entry's row last: when the row goes, its external
\* file (if it has a file id) is gone from the archive and its object (if it
\* has a key) is gone from the object store.
CexC6_RowDeletedLast ==
  [][\A i \in DOMAIN entries \ DOMAIN entries' :
       /\ entries[i].drive_file_id # EMPTY => entries[i].drive_file_id \notin drive
       /\ entries[i].image_key # NoKey => entries[i].image_key \notin bucket]_vars

\* C7: when the external deletion of an expired entry's file fails, the entry's
\* row and its object are still there.
CexC7_FailedExternalDeleteKeepsRow ==
  [][\A d \in BagToSet(dels) :
       ( /\ dels' = Remove(dels, d)
         /\ drive' = drive
         /\ Range(d.fileIds) \cap drive # {} )
       => \A f \in Range(d.fileIds) \cap drive :
            \E i \in DOMAIN entries :
              /\ entries[i].drive_file_id = f
              /\ entries[i].image_key # NoKey => entries[i].image_key \in bucket]_vars

\* ---- search: what the claims say of a finished d1Search
Answered == srch.pc = "done"
HintUnknown == srch.field \in {EMPTY, <<"x">>}
HintReg == srch.field = <<"r", "e", "g">>
MatchReg == {i \in DOMAIN entries : entries[i].reg_norm = srch.v}
MatchId == {i \in DOMAIN entries : entries[i].id_norm = srch.v}
\* the entries of the key type the search resolved to
Resolved ==
  IF HintReg THEN MatchReg
  ELSE IF HintUnknown /\ MatchReg # {} THEN MatchReg
  ELSE MatchId
HasUrl(i) == entries[i].drive_url # EMPTY /\ entries[i].drive_url # NULL
\* the most recently created entries of S
Newest(S) == {i \in S : \A j \in S : entries[j].created_at <= entries[i].created_at}
SubjectOf(i, data) ==
  /\ data.namePassport = entries[i].name_passport
  /\ data.mykadPassport = entries[i].mykad_passport
  /\ data.regnum = entries[i].regnum

\* C8: when an entry matching the key has a link, the answer has the link of the
\* most recently created matching entry that has one and the subject fields of
\* the most recently created matching entry.
CexC8_LatestIdentityLatestProof ==
  (Answered /\ srch.v # EMPTY /\ \E i \in Resolved : HasUrl(i)) =>
    /\ srch.result.exist = TRUE
    /\ srch.result.hasHyperlink = TRUE
    /\ \E p \in Newest({i \in Resolved : HasUrl(i)}) :
         srch.result.data.photoLink = entries[p].drive_url
    /\ \E a \in Newest(Resolved) : SubjectOf(a, srch.result.data)

\* C9: the answer is {exist:false} when the key is empty or nothing matches,
\* {exist:true, hasHyperlink:false, data:{}} when entries match and none has a
\* link, and {exist:true, hasHyperlink:true, data:{subject, photoLink}} otherwise.
ThmC9_ThreeShapes ==
  Answered =>
    IF srch.v = EMPTY \/ Resolved = {}
    THEN srch.result = [exist |-> FALSE]
    ELSE IF \A i \in Resolved : ~HasUrl(i)
    THEN srch.result = [exist |-> TRUE, hasHyperlink |-> FALSE, data |-> << >>]
    ELSE /\ DOMAIN srch.result = {"exist", "hasHyperlink", "data"}
         /\ srch.result.exist = TRUE
         /\ srch.result.hasHyperlink = TRUE
         /\ DOMAIN srch.result.data = {"namePassport", "mykadPassport", "regnum", "photoLink"}
         /\ srch.result.data.photoLink # EMPTY

\* C9 witness: entries match, the newest has no link and an older one has:
\* the answer is the third shape
WitC9_ProofBehindNewerEntry ==
  /\ Answered
  /\ srch.result.exist = TRUE
  /\ srch.result.hasHyperlink = TRUE
  /\ \E i \in Newest(Resolved) : ~HasUrl(i)

\* C10: with the hint absent or unrecognised the registration key is queried
\* first; if an entry matches it, the identity key is never queried and the
\* answer is made of registration matches only; if none does, the identity
\* key is queried next.
ThmC10_RegistrationFirstNoMerge ==
  (Answered /\ HintUnknown /\ srch.v # EMPTY) =>
    /\ srch.queried[1] = <<"any", "reg_norm">>
    /\ MatchReg # {} =>
         /\ \A n \in DOMAIN srch.queried : srch.queried[n][2] = "reg_norm"
         /\ srch.result.exist = TRUE
         /\ srch.result.hasHyperlink =>
              /\ \E a \in MatchReg : SubjectOf(a, srch.result.data)
              /\ \E p \in MatchReg : srch.result.data.photoLink = entries[p].drive_url
         /\ ~srch.result.hasHyperlink => \A i \in MatchReg : ~HasUrl(i)
    /\ MatchReg = {} =>
         /\ Len(srch.queried) >= 2
         /\ srch.queried[2] = <<"any", "id_norm">>
         /\ srch.result.exist = (MatchId # {})

\* C10 witness: entries match the value under both key types, only an identity
\* match has a link, and the answer reports no proof
WitC10_BothKeyTypesMatch ==
  /\ Answered /\ HintUnknown
  /\ MatchReg # {} /\ MatchId # {}
  /\ \E i \in MatchId \ MatchReg : HasUrl(i)
  /\ \A i \in MatchReg : ~HasUrl(i)
  /\ srch.result = [exist |-> TRUE, hasHyperlink |-> FALSE, data |-> << >>]

\* C11: once an entry submitted with a photo has the link returned by a
\* successful sync, a search for its key answers hasHyperlink:true with that
\* link, as long as the entry is stored and no newer entry of the key carries
\* another link.
CexC11_SearchShowsSyncedLink ==
  (srch.pc = "done" /\ srch.v # EMPTY) =>
    \A i \in Resolved :
      ( /\ entries[i].image_key # NoKey
        /\ entries[i].drive_url = UrlOf(i)
        /\ \A j \in Resolved :
             (entries[j].created_at > entries[i].created_at /\ HasUrl(j))
               => entries[j].drive_url = entries[i].drive_url )
      => /\ srch.result.exist = TRUE
         /\ srch.result.hasHyperlink = TRUE
         /\ srch.result.data.photoLink = entries[i].drive_url

\* the archive answered an attempt on entry i with an explicit success
SuccessAnswered(i) ==
  /\ i \in DOMAIN entries
  /\ \E t \in BagToSet(tasks) : t.id = i /\ t.pc = "resp" /\ ExplicitSuccess(t.resp)
Done(i) == i \in DOMAIN entries /\ entries[i].sync_status = "DONE"

CexC13_AttemptsSequential ==
  \A t, u \in BagToSet(tasks) :
    t.id = u.id => (t = u /\ CopiesIn(t, tasks) = 1)

\* C14: a sweep starts attempts only for entries that are PENDING or FAILED
\* with fewer than 5 attempts when it selects them, and changes no entry: an
\* entry at the cap keeps its row, its FAILED status and its error.
ThmC14_SweepSelectsBelowCap ==
  [][sweeps' = sweeps + 1 =>
       /\ entries' = entries
       /\ \A t \in BagToSet(tasks') :
            CopiesIn(t, tasks') > CopiesIn(t, tasks) =>
              /\ t.pc = "inc"
              /\ t.id \in DOMAIN entries
              /\ entries[t.id].sync_status \in {"PENDING", "FAILED"}
              /\ entries[t.id].sync_attempts < 5]_vars

\* C14 witness: every sweep has run, the entry is at the cap, FAILED with its
\* error, and no attempt is in flight for it
WitC14_CappedEntryKept ==
  /\ sweeps = CapSweeps
  /\ tasks = EmptyBag
  /\ \E i \in DOMAIN entries :
       /\ entries[i].sync_attempts = 5
       /\ entries[i].sync_status = "FAILED"
       /\ entries[i].sync_error # ""

\* C15: the step of an attempt that goes on to call the archive has incremented
\* the entry's syncAttempts by one.
CexC15_AttemptCountedBeforeCall ==
  [][\A t \in BagToSet(tasks) :
       ( /\ t.pc = "inc"
         /\ t.id \in DOMAIN entries
         /\ tasks' = Add(Remove(tasks, t), [t EXCEPT !.pc = "fetch"]) )
       => entries'[t.id].sync_attempts = entries[t.id].sync_attempts + 1]_vars

\* C16: no syncToGoogle promise ever rejects, in either variant.
CexC16_SyncNeverRejects == rejected = {}

\* C17: a submission whose object was written and whose INSERT failed holds no
\* row; its compensating delete can remove the object, and when it is answered
\* the answer is a 500, no row of it exists and no other object was touched.
ThmC17_CompensatingDelete ==
  [][\A r \in Ids :
       reqs[r].pc = "undo" =>
         /\ r \notin DOMAIN entries
         /\ reqs[r].imageKey \in bucket
         /\ ENABLED (SubmitUndo(r) /\ reqs[r].imageKey \notin bucket')
         /\ reqs'[r] # reqs[r] =>
              /\ reqs'[r].pc = "done"
              /\ reqs'[r].resp.status = 500
              /\ reqs'[r].resp.success = FALSE
              /\ r \notin DOMAIN entries'
              /\ bucket' \subseteq bucket
              /\ bucket \ bucket' \subseteq {reqs[r].imageKey}]_vars

\* C17 witness: the object of a submission is in the bucket and its INSERT has
\* failed on the UNIQUE constraint
WitC17_ObjectWrittenInsertFailed ==
  \E r \in Ids :
    /\ reqs[r].pc = "undo"
    /\ reqs[r].err = UniqueError
    /\ reqs[r].imageKey \in bucket

\* the store answered the request's statement with an error
StoreOutage(r) == reqs[r].resp.status = 500 /\ reqs[r].resp.message = StoreError

\* C18: a submission whose imageUrl is not a well-formed image data URL is
\* answered 400 and leaves no row and no object.
CexC18_MalformedImageIs400 ==
  \A r \in Ids :
    (reqs[r].pc = "done" /\ reqs[r].txn \in {TokB, TokM} /\ ~StoreOutage(r)) =>
      /\ reqs[r].resp.status = 400
      /\ r \notin DOMAIN entries
      /\ r \notin bucket

\* C19: a submission with neither an identity number nor a registration number
\* is answered 4xx and leaves no row.
CexC19_NoIdentityIs4xx ==
  \A r \in Ids :
    (reqs[r].pc = "done" /\ reqs[r].txn = TokN /\ ~StoreOutage(r)) =>
      /\ reqs[r].resp.status \in 400..499
      /\ \A i \in DOMAIN entries : entries[i].client_txn_id # TokN

\* C20: the request that created an entry was answered {success:true,
\* syncStatus:"PENDING"} and stays so answered whatever the sync does; a failed
\* sync shows on the entry only, as FAILED with a message.
ThmC20_AckIndependentOfSync ==
  \A r \in DOMAIN entries :
    /\ reqs[r].pc = "done"
    /\ reqs[r].resp = [status |-> 200, success |-> TRUE, id |-> r,
                       duplicate |-> FALSE, syncStatus |-> "PENDING"]
    /\ entries[r].sync_status = "FAILED" => entries[r].sync_error # ""

\* C20 witness: the sync of an entry failed and its submitter holds the success
WitC20_FailedSyncAckedPending ==
  \E r \in DOMAIN entries :
    /\ entries[r].sync_status = "FAILED"
    /\ entries[r].sync_error = "GAS sync http failed"
    /\ reqs[r].resp.status = 200
    /\ reqs[r].resp.syncStatus = "PENDING"

\* C21 (as stated): the search cache is never written from a failed upstream:
\* no cache entry is written when the store lookup threw and no fallback
\* answered in its place, nor when the fallback answered with a non-success.
CexC21_NoCacheFromFailedUpstream ==
  [][ ( /\ srch.pc \in {"done", "threw"}
        /\ srch'.pc = "idle"
        /\ \/ srch.pc = "threw" /\ ~env.sync
           \/ sent'.kind # "response"
           \/ sent'.status # 200 )
      => cache' = cache ]_vars

\* C22 (as stated): every answer to a search request is a response of status
\* 200 carrying one of the three search shapes, never a 4xx/5xx response and
\* never an uncaught error.
CexC22_SearchAlways200 ==
  sent.route = "search" =>
    /\ sent.kind = "response"
    /\ sent.status = 200
    /\ \/ sent.body = ExistFalse
       \/ sent.body.exist /\ sent.body.expired
       \/ sent.body.exist /\ ~sent.body.expired

\* C23 (as stated): a submission never fails solely because optional columns
\* are absent: whichever of the two optional column groups the table lacks,
\* no submission is answered 500 with the store's missing-column error.
CexC23_SchemaTolerantWrite ==
  \A r \in Ids :
    (reqs[r].pc = "done" /\ reqs[r].resp.status = 500)
      => reqs[r].resp.message \in {StoreError, UniqueError, "Invalid image data URL"}

\* C24: every entry is created with syncStatus PENDING, syncAttempts 0 and
\* empty externalFileId and externalUrl, whatever entries exist already; the
\* externalUrl of an entry becomes non-empty, or another one, only in the step
\* that ends a sync attempt of that same entry the archive answered with an
\* explicit success.
ThmC24_CreatedPendingNoInheritedLink ==
  [][ \A i \in Ids :
        /\ (i \notin DOMAIN entries /\ i \in DOMAIN entries')
             => /\ entries'[i].sync_status = "PENDING"
                /\ entries'[i].sync_attempts = 0
                /\ entries'[i].drive_file_id = EMPTY
                /\ entries'[i].drive_url = EMPTY
        /\ ( /\ i \in DOMAIN entries /\ i \in DOMAIN entries'
             /\ entries'[i].drive_url # entries[i].drive_url
             /\ entries'[i].drive_url # EMPTY )
             => \E t \in BagToSet(tasks) :
                  t.id = i /\ Finishing(t) /\ ExplicitSuccess(t.resp) ]_vars
\* a later entry of a subject whose earlier entry has its link: it has none
WitC24_NewerEntryWithoutOlderLink ==
  \E i, j \in DOMAIN entries :
    /\ entries[i].created_at < entries[j].created_at
    /\ entries[i].id_norm = entries[j].id_norm \/ entries[i].reg_norm = entries[j].reg_norm
    /\ entries[i].drive_url = UrlOf(i)
    /\ entries[j].drive_url = EMPTY
    /\ entries[j].sync_status = "PENDING" /\ entries[j].sync_attempts = 0

\* the aliases of db that reference no row of records_latest
Dangling(db) == {a \in DOMAIN db.aliases : db.aliases[a] \notin DOMAIN db.records}
\* this step ends a purge cycle whose last statement ran
PurgeCompletes ==
  /\ ajobs.purge.pc = "sweep"
  /\ ajobs'.purge.pc = "idle" /\ ajobs'.purge.last = "completed"
\* this step ends the submission r with its answer ok
SubmissionCompletes(r) ==
  /\ ajobs.subs[r].pc \notin {"idle", "done"}
  /\ ajobs'.subs[r].pc = "done"
  /\ ajobs'.subs[r].resp.kind = "response" /\ ajobs'.subs[r].resp.status = 200

\* C25 (as stated): in the alias variant, after every completed purge cycle and
\* after every completed submission, every row of key_aliases references a
\* primaryKey that exists in records_latest, whatever the interleaving.
CexC25_NoDanglingAlias ==
  [][ (PurgeCompletes \/ \E r \in Ids : SubmissionCompletes(r))
        => Dangling(adb') = {} ]_vars

\* C25 (amended): after every completed purge cycle every alias references an
\* existing record, and no step other than the purge's deletion of records
\* leaves an alias without its record that had it before: aliases dangle only
\* from a purge cycle's record deletion until an alias sweep.
ThmC25_DanglingOnlyUntilSweep ==
  [][ /\ PurgeCompletes => Dangling(adb') = {}
      /\ ~(ajobs.purge.pc = "records" /\ ajobs'.purge.pc = "sweep")
           => Dangling(adb') \subseteq Dangling(adb) ]_vars
\* a record a submission wrote with its aliases was purged and the cycle has
\* completed: its aliases are gone with it
WitC25_RecordPurgedAliasesSwept ==
  /\ ajobs.purge.pc = "idle" /\ ajobs.purge.last = "completed"
  /\ Dangling(adb) = {}
  /\ \E r \in Ids :
       /\ ajobs.subs[r].pc = "done"
       /\ ajobs.subs[r].resp.kind = "response" /\ ajobs.subs[r].resp.status = 200
       /\ ajobs.subs[r].primaryKey \notin DOMAIN adb.records

\* C26 (as stated): in the alias variant's purge a photo is marked deleted and
\* its record's photo reference cleared only after the archive confirmed the
\* deletion of that photo.
CexC26_MarkedOnlyAfterArchiveDeleted ==
  [][ /\ \A p \in DOMAIN adb.photos \cap DOMAIN adb'.photos :
           (adb.photos[p].deletedAt = NoTime /\ adb'.photos[p].deletedAt # NoTime)
             => ajobs.purge.row.photoId = p /\ ArchiveDid(ajobs.purge.res)
      /\ \A k \in DOMAIN adb.records \cap DOMAIN adb'.records :
           (adb.records[k].photoId # NoPhoto /\ adb'.records[k].photoId = NoPhoto)
             => ArchiveDid(ajobs.purge.res) ]_vars

\* C27 (as stated): a search whose value normalizes to the empty key, the
\* empty value or one made of non-alphanumeric characters only, is answered
\* {exist:false} and issues no query to the record store.
CexC27_EmptyKeyNotFoundNoQuery ==
  [][ ( /\ srch.pc \in {"done", "threw"}
        /\ srch'.pc = "idle"
        /\ normKey(srch.value) = EMPTY )
      => /\ sent' = Sent("search", 200, ExistFalse)
         /\ srch.queried = << >> ]_vars

\* C28 (as stated): GET /image answers with the object's bytes only when a
\* view token is configured, the request's token equals it, the entry exists
\* with an object key and the object exists; every other request is answered
\* 401 or 404 with no bytes, and with no view token configured every request
\* is answered 401.
CexC28_ImageBytesOr401Or404 ==
  sent.route = "image" =>
    /\ sent.kind = "response"
    /\ sent.status \in {200, 401, 404}
    /\ sent.status = 200 <=> sent.body # NoBytes
    /\ env.viewToken = "" => sent.status = 401

\* the rows r and q differ at most in the five fields a sync attempt writes
SameButSync(r, q) ==
  [q EXCEPT !.sync_status = r.sync_status, !.sync_attempts = r.sync_attempts,
            !.sync_error = r.sync_error, !.drive_file_id = r.drive_file_id,
            !.drive_url = r.drive_url] = r

\* C29: a step of a search request (cache hit, store lookup, fallback, answer)
\* changes no entry; a step of a sync attempt adds and removes no entry, leaves
\* every other entry as it is, and changes at most syncStatus, syncAttempts,
\* syncError, externalFileId and externalUrl of the entry it was invoked for.
ThmC29_SearchReadOnlySyncOwnFields ==
  [][ /\ (srch' # srch \/ cache' # cache \/ sent' # sent) => entries' = entries
      /\ \A t \in BagToSet(tasks) :
           CopiesIn(t, tasks') < CopiesIn(t, tasks)
             => /\ DOMAIN entries' = DOMAIN entries
                /\ \A i \in DOMAIN entries :
                     IF i = t.id THEN SameButSync(entries[i], entries'[i])
                     ELSE entries'[i] = entries[i] ]_vars
\* one entry synced, the other untouched, and a search answered from the store
WitC29_OneSyncedOtherUntouched ==
  /\ sent.route = "search" /\ cache # << >>
  /\ \E i, j \in DOMAIN entries :
       /\ i # j
       /\ entries[i].sync_status = "DONE" /\ entries[i].drive_url = UrlOf(i)
       /\ entries[j].sync_status = "PENDING" /\ entries[j].sync_attempts = 0
       /\ entries[j].drive_url = EMPTY

\* the letters and digits of a text, letters taken without their case
Letters(w) ==
  LET kept == SelectSeq(w, LAMBDA c : c \notin {"-", " "})
  IN  [i \in 1..Len(kept) |-> IF kept[i] = "k" THEN "K" ELSE kept[i]]

\* C30: normKey is idempotent, its output has only characters of [A-Z0-9], and
\* two raw values that differ only in case or in non-alphanumeric characters
\* have the same key; d1Search searches by that key.
ThmC30_NormKeyIdempotent ==
  srch.pc # "idle" =>
    LET k == srch.value
        n == normKey(k)
    IN  /\ srch.v = n
        /\ normKey(n) = n
        /\ \A i \in 1..Len(n) : n[i] \in UpperAlnum
        /\ \A w \in NormTexts : Letters(w) = Letters(k) => normKey(w) = n
\* a value in lower case with punctuation and its key
WitC30_MixedValueNormalized ==
  srch.value = <<"k", "-", "1">> /\ srch.v = <<"K", "1">>

\* C31: in every reachable state every stored entry whose image_key is not
\* null names an object that is in the bucket: POST /submit writes the object
\* before the row, its compensating delete runs only when the request inserted
\* no row, and cleanupOld deletes the rows before their objects.
ThmC31_StoredKeyHasObject ==
  \A i \in DOMAIN entries :
    entries[i].image_key # NoKey => entries[i].image_key \in bucket
\* a purge has deleted an expired row and is about to delete its object while
\* a newer entry is stored with its photo
WitC31_PurgeAndUndoBesideStoredPhoto ==
  /\ \E c \in BagToSet(cleanups) :
       /\ c.pc = "r2"
       /\ Head(c.keys) \in bucket
       /\ Head(c.keys) \notin DOMAIN entries
  /\ \E i \in DOMAIN entries : entries[i].image_key = i

\* C32: in every reachable state sync_attempts of every entry is at most 5,
\* counting the attempt detached by POST /submit and the attempts started by
\* any number of sweeps, overlapping or not.
CexC32_AttemptsAtMostFive ==
  \A i \in DOMAIN entries : entries[i].sync_attempts <= 5

\* C33: every photo that a finished submission uploaded to the archive, and
\* that the archive still holds, has a row in table photos with deletedAt NULL
\* and expiresAt = upload time + retention, also when a store statement after
\* the upload failed.
CexC33_UploadedPhotoRecorded ==
  \A r \in Ids :
    LET sub == ajobs.subs[r]
        p == sub.uploaded
    IN  (sub.pc = "done" /\ p # NoPhoto /\ p \in adb.files) =>
          /\ p \in DOMAIN adb.photos
          /\ adb.photos[p].deletedAt = NoTime
          /\ adb.photos[p].expiresAt = sub.ts + aliasRetention

\* C34: between purge cycles no record of records_latest carries the photoId
\* and photoUrl of a photo that the archive no longer holds (hasValidPhoto is
\* then false for it), under any interleaving with submissions and also when
\* an UPDATE that follows a successful external deletion fails.
CexC34_NoRecordOfDeletedPhoto ==
  (ajobs.purge.pc = "idle" /\ ajobs.purge.n > 0) =>
    \A pk \in DOMAIN adb.records :
      LET rec == adb.records[pk]
      IN  (rec.photoId # NoPhoto /\ rec.photoUrl # NoPhoto) => rec.photoId \in adb.files

====
